---- MODULE Spec2Model ----
(***************************************************************************)
(* Model of the YouTube Playlist Enhancer content script:                  *)
(*   - the panel classifier (observer.ts: quickPreCheck, isPlaylistSheet), *)
(*   - the enhancement lifecycle (enhancer.ts: enhanceSheet, cleanup),     *)
(*   - the selection engine (multiselect.ts: SelectionManager).            *)
(* Text is a sequence of one-character strings; a character outside ASCII  *)
(* is written by its code point ("U5132").                                 *)
(*                                                                         *)
(* Specifications:                                                         *)
(*   SpecClassify     one panel candidate and the verdicts computed for it *)
(*   Spec             attach, cleanup, clicks, live-added rows, cancel,    *)
(*                    save                                                 *)
(*   SpecFaults       Spec with batches that throw; a pending delay fires  *)
(*   SpecSetupFaults  attaches in which a setup throws                     *)
(*   SpecLiveRows     one session and the rows the host adds to it, as a   *)
(*                    node of their own or inside a wrapper node           *)
(*   SpecSearch       the filter of one SearchManager                      *)
(*   SpecObserver     one dropdown, its timers and the sessions attached   *)
(*   SpecWiring       one dropdown found at the start or added later, the  *)
(*                    rescan, and a user who clicks rows of its panel      *)
(*   SpecNavigation   sessions and batches across SPA navigations          *)
(*   SpecResolver     findElement and findAllElements on one configuration *)
(* A handler is a function from program state to program state; an action  *)
(* applies one whole handler. handleSave is split at its delays: each      *)
(* resumption is a step, so other handlers interleave with a batch.        *)
(* A manager that is no longer referenced and was never destroyed keeps    *)
(* its listeners, its items and its footer; its methods run on it.         *)
(***************************************************************************)
EXTENDS Integers, Sequences, FiniteSets, TLC

(***************************************************************************)
(* Bounds                                                                  *)
(***************************************************************************)
\* number of list rows the host can show in the panel
MaxRows == 2

Rows == 1..MaxRows

\* number of handleSave invocations suspended at the same time
MaxBatches == 2

(***************************************************************************)
(* Text helpers (String.prototype.toLowerCase / trim / includes)           *)
(***************************************************************************)
UpperToLower ==
  ("A" :> "a") @@ ("B" :> "b") @@ ("C" :> "c") @@ ("D" :> "d") @@ ("E" :> "e") @@
  ("F" :> "f") @@ ("G" :> "g") @@ ("H" :> "h") @@ ("I" :> "i") @@ ("J" :> "j") @@
  ("K" :> "k") @@ ("L" :> "l") @@ ("M" :> "m") @@ ("N" :> "n") @@ ("O" :> "o") @@
  ("P" :> "p") @@ ("Q" :> "q") @@ ("R" :> "r") @@ ("S" :> "s") @@ ("T" :> "t") @@
  ("U" :> "u") @@ ("V" :> "v") @@ ("W" :> "w") @@ ("X" :> "x") @@ ("Y" :> "y") @@
  ("Z" :> "z") @@ ("U00DC" :> "U00FC") @@ ("U0421" :> "U0441") @@
  ("U00D1" :> "U00F1") @@ ("U00C0" :> "U00E0")

WhiteSpace == {" ", "\n", "\t", "U00A0", "U3000"}

toLowerCase(s) ==
  [i \in 1..Len(s) |-> IF s[i] \in DOMAIN UpperToLower THEN UpperToLower[s[i]] ELSE s[i]]

RECURSIVE trimStart(_)
trimStart(s) ==
  IF s # <<>> /\ Head(s) \in WhiteSpace THEN trimStart(Tail(s)) ELSE s

RECURSIVE trimEnd(_)
trimEnd(s) ==
  IF s # <<>> /\ s[Len(s)] \in WhiteSpace THEN trimEnd(SubSeq(s, 1, Len(s) - 1)) ELSE s

trim(s) == trimEnd(trimStart(s))

\* s starts with p
startsWith(s, p) == Len(p) <= Len(s) /\ SubSeq(s, 1, Len(p)) = p

\* String.prototype.includes: scan the start positions from the left
RECURSIVE includes(_, _)
includes(s, p) ==
  IF Len(p) > Len(s) THEN FALSE
  ELSE IF startsWith(s, p) THEN TRUE
  ELSE includes(Tail(s), p)

(***************************************************************************)
(* selectors.ts                                                            *)
(***************************************************************************)
PLAYLIST_TITLE_PATTERNS ==
  << <<"U5132", "U5B58", "U81F3">>,
     <<"U4FDD", "U5B58", "U5230">>,
     <<"s", "a", "v", "e", " ", "t", "o", " ", "p", "l", "a", "y", "l", "i", "s", "t">>,
     <<"s", "a", "v", "e", " ", "v", "i", "d", "e", "o", " ", "t", "o">>,
     <<"z", "u", " ", "p", "l", "a", "y", "l", "i", "s", "t", " ", "h", "i", "n", "z", "u", "f", "U00FC", "g", "e", "n">>,
     <<"a", "U00F1", "a", "d", "i", "r", " ", "a", " ", "p", "l", "a", "y", "l", "i", "s", "t">>,
     <<"a", "j", "o", "u", "t", "e", "r", " ", "U00E0", " ", "l", "a", " ", "p", "l", "a", "y", "l", "i", "s", "t">>,
     <<"a", "g", "g", "i", "u", "n", "g", "i", " ", "a", "l", "l", "a", " ", "p", "l", "a", "y", "l", "i", "s", "t">>,
     <<"U518D", "U751F", "U30EA", "U30B9", "U30C8", "U306B", "U4FDD", "U5B58">>,
     <<"UC7AC", "UC0DD", "UBAA9", "UB85D", "UC5D0", " ", "UC800", "UC7A5">>,
     <<"U0441", "U043E", "U0445", "U0440", "U0430", "U043D", "U0438", "U0442", "U044C", " ", "U0432", " ", "U043F", "U043B", "U0435", "U0439", "U043B", "U0438", "U0441", "U0442">> >>

\* result of querySelector when nothing matches
NoElement == [found |-> FALSE, text |-> <<>>]

\* findElement(parent, config): tiers[1] holds the elements (here: their
\* textContent) matched by config.primary, tiers[2..] those matched by each
\* fallback, each in document order
RECURSIVE findElementFrom(_, _)
findElementFrom(tiers, i) ==
  IF i > Len(tiers) THEN NoElement
  ELSE IF tiers[i] # <<>> THEN [found |-> TRUE, text |-> tiers[i][1]]
  ELSE findElementFrom(tiers, i + 1)

findElement(tiers) ==
  IF tiers[1] # <<>> THEN [found |-> TRUE, text |-> tiers[1][1]]
  ELSE findElementFrom(tiers, 2)

\* faulty variant of findAllElements: the results of all tiers together
RECURSIVE findAllElementsUnion(_)
findAllElementsUnion(tiers) ==
  IF tiers = <<>> THEN <<>> ELSE Head(tiers) \o findAllElementsUnion(Tail(tiers))

\* the loop of findAllElements over the fallbacks
RECURSIVE findAllElementsFrom(_, _)
findAllElementsFrom(tiers, i) ==
  IF i > Len(tiers) THEN <<>>
  ELSE IF Len(tiers[i]) > 0 THEN tiers[i]
  ELSE findAllElementsFrom(tiers, i + 1)

\* findAllElements(parent, config): tiers as for findElement
findAllElements(tiers) ==
  IF Len(tiers[1]) > 0 THEN tiers[1] ELSE findAllElementsFrom(tiers, 2)

\* the answer of a call that was not made
NotCalled == [done |-> FALSE, found |-> FALSE, elements |-> <<>>]

\* no selector configuration under study
NoResolver == [tiers |-> <<>>, one |-> NotCalled, all |-> NotCalled]

(***************************************************************************)
(* observer.ts: the classifier                                             *)
(* A panel candidate is a record                                           *)
(*   titles        the elements matched by each tier of SELECTORS.title    *)
(*   ctxMenu       contains ytd-menu-service-item-renderer                 *)
(*   listView      contains yt-list-view-model                             *)
(*   listItemView  contains yt-list-item-view-model                        *)
(*   panelFooter   contains yt-panel-footer-view-model                     *)
(*   playlistIcon  contains [icon="yt-icons:playlist_add"]                 *)
(***************************************************************************)
\* faulty variant of titleMatchesPatterns: the generic word "save" also counts
titleMatchesGenericWords(titleText) ==
  \/ \E k \in 1..Len(PLAYLIST_TITLE_PATTERNS) :
       includes(titleText, toLowerCase(PLAYLIST_TITLE_PATTERNS[k]))
  \/ includes(titleText, <<"s", "a", "v", "e">>)

\* PLAYLIST_TITLE_PATTERNS.some(pattern => titleText.includes(pattern.toLowerCase()))
titleMatchesPatterns(titleText) ==
  \E k \in 1..Len(PLAYLIST_TITLE_PATTERNS) :
    includes(titleText, toLowerCase(PLAYLIST_TITLE_PATTERNS[k]))

\* faulty variant of quickPreCheck: the title is looked at before the context-menu marker
quickPreCheckTitleFirst(sheet) ==
  LET titleElement == findElement(sheet.titles) IN
  IF ~titleElement.found THEN "uncertain"
  ELSE IF sheet.ctxMenu THEN "not-playlist"
  ELSE LET titleText == trim(toLowerCase(titleElement.text)) IN
    IF ~titleMatchesPatterns(titleText) THEN "not-playlist"
    ELSE IF ~sheet.listView /\ ~sheet.listItemView THEN "uncertain"
    ELSE "playlist"

\* faulty variant of quickPreCheck: a matching title is enough, the list markers are not looked at
quickPreCheckSkipsStructure(sheet) ==
  IF sheet.ctxMenu THEN "not-playlist"
  ELSE LET titleElement == findElement(sheet.titles) IN
    IF ~titleElement.found THEN "uncertain"
    ELSE LET titleText == trim(toLowerCase(titleElement.text)) IN
      IF ~titleMatchesPatterns(titleText) THEN "not-playlist"
      ELSE "playlist"

quickPreCheck(sheet) ==
  IF sheet.ctxMenu THEN "not-playlist"
  ELSE LET titleElement == findElement(sheet.titles) IN
    IF ~titleElement.found THEN "uncertain"
    ELSE LET titleText == trim(toLowerCase(titleElement.text)) IN
      IF ~titleMatchesPatterns(titleText) THEN "not-playlist"
      ELSE IF ~sheet.listView /\ ~sheet.listItemView THEN "uncertain"
      ELSE "playlist"

isPlaylistSheet(sheet) ==
  LET titleElement == findElement(sheet.titles) IN
  IF ~titleElement.found THEN FALSE
  ELSE LET titleText == trim(toLowerCase(titleElement.text)) IN
    IF ~titleMatchesPatterns(titleText) THEN FALSE
    ELSE IF ~sheet.listView /\ ~sheet.listItemView THEN FALSE
    ELSE IF sheet.ctxMenu THEN FALSE
    ELSE IF ~sheet.panelFooter /\ ~sheet.playlistIcon /\ ~sheet.listItemView THEN FALSE
    ELSE TRUE

(***************************************************************************)
(* State                                                                   *)
(*                                                                         *)
(* cand, quick, full, callbackInvoked : one panel candidate and the        *)
(*   verdicts computed for it (classifier specification).                  *)
(* enh   : module state of enhancer.ts                                     *)
(*   currentSelectionManager, currentSearchManager : TRUE = the variable   *)
(*         holds a manager, FALSE = null                                   *)
(*   globalInterceptorController : TRUE = holds an AbortController         *)
(*   activeInterceptors : number of controllers whose capture listeners    *)
(*         are still registered on window/document (created, not aborted)  *)
(* sel   : the SelectionManager held by currentSelectionManager            *)
(* srch  : the SearchManager held by currentSearchManager                  *)
(* garbage : the managers the enhancer no longer references                *)
(*   selection, search : how many of them were never destroyed             *)
(*   managers : the SelectionManagers among them that were never           *)
(*         destroyed, oldest first; their listeners are still registered   *)
(* dom   : the host document: the rows of the list container, the state    *)
(*         the host shows for each row, and the extension's decorations    *)
(* batches : the handleSave invocations suspended in `await delay(200)`,   *)
(*         oldest first                                                    *)
(* dom.fallback : the rows whose element is a                              *)
(*         ytd-playlist-add-to-option-renderer (listItem.fallback) and not *)
(*         a yt-list-item-view-model (listItem.primary)                    *)
(* out   : what the handler of the last step emitted, in order: synthetic  *)
(*         clicks, toasts, the request to close the panel (or only its     *)
(*         Escape keydown), the reset of the search input, the attach      *)
(*         callback                                                        *)
(* hist  : what the last step was, the step log of the last attach, and    *)
(*         the timer of a detached sheet that fired in the last step       *)
(***************************************************************************)
VARIABLES cand, quick, full, callbackInvoked, enh, sel, srch, garbage, dom, batches, out, hist, fs, ob, rs

classVars == <<cand, quick, full, callbackInvoked>>
lifeVars == <<enh, sel, srch, garbage, dom, batches, out, hist>>
searchVars == <<fs>>
obsVars == <<ob>>
resolverVars == <<rs>>
vars == <<cand, quick, full, callbackInvoked, enh, sel, srch, garbage, dom, batches, out, hist, fs, ob, rs>>

\* the program state as one value, so that a handler can call another; a
\* handler starts with nothing emitted
World ==
  [enh |-> enh, sel |-> sel, srch |-> srch, garbage |-> garbage, dom |-> dom,
   batches |-> batches, out |-> <<>>]

\* the handler's result w becomes the next state (w is computed once)
SetWorld(w) ==
  \E x \in {w} :
    /\ enh' = x.enh
    /\ sel' = x.sel
    /\ srch' = x.srch
    /\ garbage' = x.garbage
    /\ dom' = x.dom
    /\ batches' = x.batches
    /\ out' = x.out

\* a SelectionManager right after construction (multiselect.ts:22-26)
NewSelectionManager ==
  [ items |-> <<>>, isSelected |-> {}, wasOriginallySelected |-> {},
    listContainer |-> FALSE, footer |-> FALSE, isSaving |-> FALSE,
    listObserver |-> FALSE, clickListeners |-> FALSE, pressListeners |-> {},
    destroyed |-> FALSE ]

\* a SearchManager right after construction (search.ts:21-28)
NewSearchManager ==
  [ listContainer |-> FALSE, searchWrapper |-> FALSE, destroyed |-> FALSE ]

Range(s) == {s[i] : i \in 1..Len(s)}

\* `this` is the i-th unreferenced manager
asManager(w, i) == [w EXCEPT !.sel = w.garbage.managers[i]]

\* w1 is what a method of the i-th unreferenced manager made of asManager(w, i)
backFrom(w, i, w1) == [w1 EXCEPT !.sel = w.sel, !.garbage.managers[i] = w1.sel]

\* the handler emits something the page or the user can observe
emit(w, kind, arg) == [w EXCEPT !.out = Append(@, [kind |-> kind, arg |-> arg])]

\* showToast(message, type): the toasts are told apart by their message
\* ("noChanges", "updated", "saveFailed")
showToast(w, message) == emit(w, message, 0)

RemoveAt(s, i) == SubSeq(s, 1, i - 1) \o SubSeq(s, i + 1, Len(s))

(***************************************************************************)
(* The host rows. Odd rows carry the legacy [role="checkbox"] with         *)
(* aria-checked; even rows carry the bookmark icon of the new UI, whose    *)
(* path is filled (in playlist) or outline (not in playlist).              *)
(***************************************************************************)
FilledPath == <<"M", "1", "9", " ", "2", "H", "5", "a", "2">>
OutlinePath == <<"M", "1", "9", " ", "2", "H", "5", "Z", "M", "5", " ", "4">>

RowElement(r, on) ==
  IF r % 2 = 1
  THEN [roleCheckbox |-> TRUE, ariaChecked |-> IF on THEN "true" ELSE "false",
        trailingPath |-> FALSE, d |-> <<>>]
  ELSE [roleCheckbox |-> FALSE, ariaChecked |-> "",
        trailingPath |-> TRUE, d |-> IF on THEN FilledPath ELSE OutlinePath]

\* SelectionManager.checkIfOriginallySelected
checkIfOriginallySelected(el) ==
  IF el.roleCheckbox THEN el.ariaChecked = "true"
  ELSE IF el.trailingPath
       THEN startsWith(el.d, <<"M", "1", "9", " ", "2", "H", "5">>)
            /\ ~includes(el.d, <<"Z", "M", "5">>)
       ELSE FALSE

\* the rows currently in the list container, in document order
DomRows(w) == [i \in 1..w.dom.nRows |-> i]

\* findAllElements(this._listContainer, SELECTORS.listItem)
listItemsFound(w) ==
  findAllElements(<< SelectSeq(DomRows(w), LAMBDA r : r \notin w.dom.fallback),
                     SelectSeq(DomRows(w), LAMBDA r : r \in w.dom.fallback) >>)

inferSelected(w, r) == checkIfOriginallySelected(RowElement(r, w.dom.host[r]))

(***************************************************************************)
(* multiselect.ts: SelectionManager                                        *)
(* sel.items is the key order of the Map _items; isSelected and            *)
(* wasOriginallySelected hold the rows whose item has the field true.      *)
(***************************************************************************)
\* get selectedCount
selectedCount(w) ==
  Len(SelectSeq(w.sel.items, LAMBDA r : r \in w.sel.isSelected))

\* getItemsToAdd
getItemsToAdd(w) ==
  SelectSeq(w.sel.items,
            LAMBDA r : r \in w.sel.isSelected /\ r \notin w.sel.wasOriginallySelected)

\* faulty variant of getItemsToRemove: every changed item is listed
getItemsToRemoveChanged(w) ==
  SelectSeq(w.sel.items,
            LAMBDA r : (r \in w.sel.isSelected) # (r \in w.sel.wasOriginallySelected))

\* getItemsToRemove
getItemsToRemove(w) ==
  SelectSeq(w.sel.items,
            LAMBDA r : r \notin w.sel.isSelected /\ r \in w.sel.wasOriginallySelected)

\* addCheckboxToItem: a new .ype-checkbox becomes the first child of the row
addCheckboxToItem(w, r, isChecked) ==
  IF w.dom.checkbox[r] > 0 THEN w
  ELSE [w EXCEPT !.dom.checkbox[r] = @ + 1,
                 !.dom.checked = IF isChecked THEN @ \cup {r} ELSE @ \ {r}]

\* updateCheckboxUI: toggles the class on the first .ype-checkbox of the row
updateCheckboxUI(w, r, isChecked) ==
  IF w.dom.checkbox[r] > 0
  THEN [w EXCEPT !.dom.checked = IF isChecked THEN @ \cup {r} ELSE @ \ {r}]
  ELSE w

\* updateFooterCount
updateFooterCount(w) ==
  IF w.sel.footer THEN [w EXCEPT !.dom.footerCount = selectedCount(w)] ELSE w

\* faulty variant of toggle: the original state follows the new selection
toggleBothFields(w, r) ==
  IF r \in Range(w.sel.items)
  THEN LET now == r \notin w.sel.isSelected
           w1 == [w EXCEPT
                    !.sel.isSelected = IF now THEN @ \cup {r} ELSE @ \ {r},
                    !.sel.wasOriginallySelected = IF now THEN @ \cup {r} ELSE @ \ {r}]
       IN updateFooterCount(updateCheckboxUI(w1, r, now))
  ELSE w

\* toggle(element)
toggle(w, r) ==
  IF r \in Range(w.sel.items)
  THEN LET now == r \notin w.sel.isSelected
           w1 == [w EXCEPT !.sel.isSelected = IF now THEN @ \cup {r} ELSE @ \ {r}]
       IN updateFooterCount(updateCheckboxUI(w1, r, now))
  ELSE w

\* the loop of reset() over the items from position i on
RECURSIVE resetFrom(_, _)
resetFrom(w, i) ==
  IF i > Len(w.sel.items) THEN w
  ELSE LET r == w.sel.items[i]
           orig == r \in w.sel.wasOriginallySelected
           w1 == [w EXCEPT !.sel.isSelected = IF orig THEN @ \cup {r} ELSE @ \ {r}]
       IN resetFrom(updateCheckboxUI(w1, r, orig), i + 1)

\* faulty variant of reset: the selection goes back and the checkboxes are not redrawn
resetKeepsCheckboxes(w) ==
  updateFooterCount(
    [w EXCEPT !.sel.isSelected = Range(w.sel.items) \cap w.sel.wasOriginallySelected])

\* reset()
reset(w) == updateFooterCount(resetFrom(w, 1))

\* the loop of refreshState() over the items from position i on
RECURSIVE refreshFrom(_, _)
refreshFrom(w, i) ==
  IF i > Len(w.sel.items) THEN w
  ELSE LET r == w.sel.items[i]
           isNowSelected == inferSelected(w, r)
           w1 == [w EXCEPT
                    !.sel.wasOriginallySelected =
                       IF isNowSelected THEN @ \cup {r} ELSE @ \ {r},
                    !.sel.isSelected =
                       IF isNowSelected THEN @ \cup {r} ELSE @ \ {r}]
       IN refreshFrom(updateCheckboxUI(w1, r, isNowSelected), i + 1)

\* faulty variant of refreshState: only the original state is read again
refreshStateOriginalsOnly(w) ==
  updateFooterCount(
    [w EXCEPT !.sel.wasOriginallySelected =
                 {r \in Range(w.sel.items) : inferSelected(w, r)}])

\* refreshState()
refreshState(w) == updateFooterCount(refreshFrom(w, 1))

\* this._items.set(element, {...}): row r becomes a tracked item whose two
\* states are what the row shows
setItem(w, r) ==
  LET isSel == inferSelected(w, r)
  IN [w EXCEPT
        !.sel.items = Append(@, r),
        !.sel.isSelected = IF isSel THEN @ \cup {r} ELSE @ \ {r},
        !.sel.wasOriginallySelected = IF isSel THEN @ \cup {r} ELSE @ \ {r}]

\* one row becomes a tracked item and gets its checkbox (the body shared by
\* initialize's forEach and the observeNewItems callback)
trackItem(w, r) == addCheckboxToItem(setItem(w, r), r, inferSelected(w, r))

\* items.forEach(...) of initialize, from position i of the rows found
RECURSIVE initItemsFrom(_, _, _)
initItemsFrom(w, found, i) ==
  IF i > Len(found) THEN w
  ELSE initItemsFrom(trackItem(w, found[i]), found, i + 1)

\* the event types of interceptClicks after 'click', in the order of its
\* addEventListener calls
PressTypes == <<"mousedown", "pointerdown">>

\* interceptClicks() up to its k-th addEventListener: capture listeners on
\* the list container, which no code path removes
interceptClicksUpTo(w, k) ==
  IF w.sel.listContainer
  THEN [w EXCEPT !.sel.clickListeners = (k >= 1),
                 !.sel.pressListeners = {PressTypes[j] : j \in 1..(k - 1)}]
  ELSE w

\* interceptClicks()
interceptClicks(w) == interceptClicksUpTo(w, 1 + Len(PressTypes))

\* injectActionFooter(sheet): the footer goes into #contentWrapper of the
\* dropdown that holds the sheet; a sheet that is detached has no such
\* ancestor and gets the footer appended to itself, outside the document
injectActionFooter(w) ==
  IF w.dom.footers > 0 \/ ~w.dom.attached THEN w
  ELSE [w EXCEPT !.sel.footer = TRUE,
                 !.dom.footers = @ + 1,
                 !.dom.footerCount = selectedCount(w)]

\* observeNewItems(): connects the MutationObserver of the list container
observeNewItems(w) ==
  IF w.sel.listContainer THEN [w EXCEPT !.sel.listObserver = TRUE] ELSE w

\* the MutationObserver callback of observeNewItems for one added list row
onItemAdded(w, r) ==
  IF w.sel.listObserver /\ r \notin Range(w.sel.items)
  THEN trackItem(w, r)
  ELSE w

\* the list observers that are connected run for the added row r, those of
\* the unreferenced managers from the i-th on first
RECURSIVE listObserversFrom(_, _, _)
listObserversFrom(w, r, i) ==
  IF i > Len(w.garbage.managers) THEN onItemAdded(w, r)
  ELSE listObserversFrom(backFrom(w, i, onItemAdded(asManager(w, i), r)), r, i + 1)

\* the MutationObserver callback of observeNewItems for one added node that
\* is not a list row and holds the list row r: the callback tests the added
\* node itself and does not search inside it
onWrapperAdded(w, r) == w

\* initialize(sheet)
initialize(w) ==
  IF ~w.dom.listContainer THEN w
  ELSE LET w1 == [w EXCEPT !.sel.listContainer = TRUE]
           w2 == initItemsFrom(w1, listItemsFound(w1), 1)
           w3 == interceptClicks(w2)
           w4 == injectActionFooter(w3)
       IN observeNewItems(w4)

\* setupMultiSelect(sheet): constructs a manager and initializes it
setupMultiSelect(w) == initialize([w EXCEPT !.sel = NewSelectionManager])

\* faulty variant of SelectionManager.destroy(): the Map of items is not cleared
selectionDestroyKeepsItems(w) ==
  [w EXCEPT !.sel.listObserver = FALSE,
            !.dom.footers = IF w.sel.footer THEN @ - 1 ELSE @,
            !.dom.footerCount = IF w.sel.footer THEN 0 ELSE @,
            !.sel.listContainer = FALSE,
            !.sel.footer = FALSE,
            !.sel.isSaving = FALSE,
            !.sel.destroyed = TRUE]

\* the statements of initialize(sheet) that can throw after the list
\* container was found: in items.forEach the handling of row done + 1,
\* before its _items.set ("items") or after it in addCheckboxToItem;
\* interceptClicks after `done` of its addEventListener calls;
\* injectActionFooter (the listeners are installed by then) and
\* observeNewItems (the footer is in the panel by then)
SetupFaults ==
  {[at |-> "items", done |-> j] : j \in 0..(MaxRows - 1)}
    \cup {[at |-> "addCheckboxToItem", done |-> j] : j \in 0..(MaxRows - 1)}
    \cup {[at |-> "interceptClicks", done |-> k] : k \in 0..Len(PressTypes)}
    \cup {[at |-> "injectActionFooter", done |-> 0], [at |-> "observeNewItems", done |-> 0]}

\* initialize(sheet) up to the statement that throws
initializeUpTo(w, fault) ==
  LET w1 == [w EXCEPT !.sel.listContainer = TRUE]
      found == listItemsFound(w1)
  IN IF fault.at = "items"
     THEN initItemsFrom(w1, SubSeq(found, 1, fault.done), 1)
     ELSE IF fault.at = "addCheckboxToItem"
     THEN setItem(initItemsFrom(w1, SubSeq(found, 1, fault.done), 1),
                  found[fault.done + 1])
     ELSE IF fault.at = "interceptClicks"
     THEN interceptClicksUpTo(initItemsFrom(w1, found, 1), fault.done)
     ELSE LET w3 == interceptClicks(initItemsFrom(w1, found, 1))
          IN IF fault.at = "injectActionFooter" THEN w3 ELSE injectActionFooter(w3)

\* SelectionManager.destroy()
selectionDestroy(w) ==
  [w EXCEPT !.sel.listObserver = FALSE,
            !.dom.footers = IF w.sel.footer THEN @ - 1 ELSE @,
            !.dom.footerCount = IF w.sel.footer THEN 0 ELSE @,
            !.sel.items = <<>>,
            !.sel.isSelected = {},
            !.sel.wasOriginallySelected = {},
            !.sel.listContainer = FALSE,
            !.sel.footer = FALSE,
            !.sel.isSaving = FALSE,
            !.sel.destroyed = TRUE]

(***************************************************************************)
(* search.ts: SearchManager (construction and teardown)                    *)
(* The SearchManager shares the Map of the SelectionManager built by the   *)
(* same attach (initialize stores the reference), so clearing it clears    *)
(* sel.items.                                                              *)
(***************************************************************************)
\* injectSearchBox(sheet)
injectSearchBox(w) ==
  IF w.dom.wrappers > 0 THEN w
  ELSE [w EXCEPT !.srch.searchWrapper = TRUE, !.dom.wrappers = @ + 1]

\* setupSearch(sheet, items): constructs a manager and initializes it
setupSearch(w) ==
  LET w1 == [w EXCEPT !.srch = NewSearchManager]
  IN IF ~w1.dom.listContainer THEN w1
     ELSE injectSearchBox([w1 EXCEPT !.srch.listContainer = TRUE])

\* the statements of SearchManager.initialize that can throw after the list
\* container was found: injectSearchBox before the box is in the panel, and
\* bindSearchEvents after
SearchFaults == {"injectSearchBox", "bindSearchEvents"}

\* SearchManager.initialize up to the statement that throws
searchInitializeUpTo(w, at) ==
  LET w1 == [w EXCEPT !.srch = [NewSearchManager EXCEPT !.listContainer = TRUE]]
  IN IF at = "bindSearchEvents" THEN injectSearchBox(w1) ELSE w1

\* SearchManager.destroy()
searchDestroy(w) ==
  [w EXCEPT !.dom.wrappers = IF w.srch.searchWrapper THEN @ - 1 ELSE @,
            !.sel.items = <<>>,
            !.sel.isSelected = {},
            !.sel.wasOriginallySelected = {},
            !.srch.listContainer = FALSE,
            !.srch.searchWrapper = FALSE,
            !.srch.destroyed = TRUE]

(***************************************************************************)
(* enhancer.ts                                                             *)
(***************************************************************************)
\* installGlobalClickInterceptor(): aborts the controller it holds, then
\* registers the listeners of a new one
installGlobalClickInterceptor(w) ==
  LET aborted == IF w.enh.globalInterceptorController
                 THEN w.enh.activeInterceptors - 1
                 ELSE w.enh.activeInterceptors
  IN [w EXCEPT !.enh.globalInterceptorController = TRUE,
               !.enh.activeInterceptors = aborted + 1]

\* currentSearchManager = null: the manager is no longer referenced
dropSearchManager(w) ==
  [w EXCEPT !.enh.currentSearchManager = FALSE,
            !.garbage.search = IF w.srch.destroyed THEN @ ELSE @ + 1,
            !.srch = NewSearchManager]

\* a suspended handleSave whose manager is no longer referenced: what is
\* left of it are the clicks still to come and, when the manager was not
\* destroyed, its place `by` among the unreferenced managers
disown(b, by) ==
  [own |-> FALSE, by |-> by,
   queue |-> SubSeq(b.queue, b.pos + 1, Len(b.queue)), pos |-> 0]

\* a manager after destroy(): it holds no item, no footer and no observer,
\* so its listeners and its suspended handleSave find nothing of its own
inert(m) == m.destroyed /\ m.items = <<>>

\* currentSelectionManager = null: the manager is no longer referenced; its
\* click handlers stay on the list container with whatever items it still
\* holds, and its suspended handleSave goes on with `this` bound to it
dropSelectionManager(w) ==
  [w EXCEPT !.enh.currentSelectionManager = FALSE,
            !.garbage.selection = IF w.sel.destroyed THEN @ ELSE @ + 1,
            !.garbage.managers = IF inert(w.sel) THEN @ ELSE Append(@, w.sel),
            !.sel = NewSelectionManager,
            !.batches =
               [i \in DOMAIN @ |->
                  IF @[i].own
                  THEN disown(@[i], IF inert(w.sel) THEN 0
                                    ELSE Len(w.garbage.managers) + 1)
                  ELSE @[i]]]

\* faulty variant of cleanup: the selection manager is dropped without destroy()
cleanupDropsSelection(w) ==
  LET w1 == IF w.enh.globalInterceptorController
            THEN [w EXCEPT !.enh.activeInterceptors = @ - 1,
                           !.enh.globalInterceptorController = FALSE]
            ELSE w
      w2 == IF w1.enh.currentSearchManager
            THEN dropSearchManager(searchDestroy(w1))
            ELSE w1
  IN IF w2.enh.currentSelectionManager
     THEN dropSelectionManager(w2)
     ELSE w2

\* faulty variant of cleanup: the search manager is dropped without destroy()
cleanupKeepsSearchBox(w) ==
  LET w1 == IF w.enh.globalInterceptorController
            THEN [w EXCEPT !.enh.activeInterceptors = @ - 1,
                           !.enh.globalInterceptorController = FALSE]
            ELSE w
      w2 == IF w1.enh.currentSearchManager
            THEN dropSearchManager(w1)
            ELSE w1
  IN IF w2.enh.currentSelectionManager
     THEN dropSelectionManager(selectionDestroy(w2))
     ELSE w2

\* cleanup()
cleanup(w) ==
  LET w1 == IF w.enh.globalInterceptorController
            THEN [w EXCEPT !.enh.activeInterceptors = @ - 1,
                           !.enh.globalInterceptorController = FALSE]
            ELSE w
      w2 == IF w1.enh.currentSearchManager
            THEN dropSearchManager(searchDestroy(w1))
            ELSE w1
  IN IF w2.enh.currentSelectionManager
     THEN dropSelectionManager(selectionDestroy(w2))
     ELSE w2

\* sheet.querySelectorAll('.ype-checkbox').forEach(checkbox => checkbox.remove())
removeCheckboxes(w) ==
  [w EXCEPT !.dom.checkbox = [r \in Rows |-> 0], !.dom.checked = {}]

\* the states enhanceSheet goes through, one per statement:
\* install, cleanup, checkbox removal, multiselect setup, search setup
enhanceSheetSteps(w) ==
  LET w1 == installGlobalClickInterceptor(w)
      w2 == cleanup(w1)
      w3 == removeCheckboxes(w2)
      w4 == [setupMultiSelect(w3) EXCEPT !.enh.currentSelectionManager = TRUE]
      w5 == IF w4.enh.currentSelectionManager /\ Len(w4.sel.items) > 0
            THEN [setupSearch(w4) EXCEPT !.enh.currentSearchManager = TRUE]
            ELSE w4
  IN <<w1, w2, w3, w4, w5>>

\* enhanceSheet(sheet)
enhanceSheet(w) == enhanceSheetSteps(w)[5]

\* enhanceSheet(sheet) when setupMultiSelect throws: the manager under
\* construction is never assigned, the inner catch logs, and the search is
\* skipped because currentSelectionManager is null
enhanceSheetSelectionThrows(w, fault) ==
  LET w3 == enhanceSheetSteps(w)[3]
  IN dropSelectionManager(initializeUpTo([w3 EXCEPT !.sel = NewSelectionManager], fault))

\* faulty variant of enhanceSheetSearchThrows: without the inner try/catch
\* the outer catch runs cleanup()
enhanceSheetSearchThrowsCleansUp(w, at) ==
  cleanup(dropSearchManager(searchInitializeUpTo(enhanceSheetSteps(w)[4], at)))

\* enhanceSheet(sheet) when setupSearch throws: the search manager under
\* construction is never assigned and the inner catch logs
enhanceSheetSearchThrows(w, at) ==
  dropSearchManager(searchInitializeUpTo(enhanceSheetSteps(w)[4], at))

\* enhancePlaylistSheet(sheet) of index.ts: the attach callback
enhancePlaylistSheet(w) == enhanceSheet([w EXCEPT !.dom.enhanced = TRUE])

(***************************************************************************)
(* Clicks on a list row                                                    *)
(***************************************************************************)
\* the host's own handler of a click on row r: it flips the membership and
\* re-renders the row's indicator
hostClick(w, r) == [w EXCEPT !.dom.host[r] = ~@]

\* interceptHandler of the manager w.sel stops an event of the type on row
\* r: the manager listens for the type, the row is found by
\* target.closest(SELECTORS.listItem.primary), the manager holds an item
\* for it and it does not carry the ype-saving class
interceptHandlerStops(w, r, type, saving) ==
  /\ IF type = "click" THEN w.sel.clickListeners ELSE type \in w.sel.pressListeners
  /\ r \notin w.dom.fallback
  /\ r \in Range(w.sel.items)
  /\ ~saving

\* the first of the unreferenced managers whose interceptHandler stops the
\* event, 0 if none does
firstStopping(w, r, type, saving) ==
  LET stopping == {i \in DOMAIN w.garbage.managers :
                     interceptHandlerStops(asManager(w, i), r, type, saving)}
  IN IF stopping = {} THEN 0
     ELSE CHOOSE i \in stopping : \A j \in stopping : i <= j

\* a click event on row r travels through the capture listeners of the list
\* container in registration order; the first handler that stops it toggles
\* its own item (stopImmediatePropagation), otherwise the click reaches the
\* host. The handlers of unreferenced managers were registered first.
rowClick(w, r, saving) ==
  LET i == firstStopping(w, r, "click", saving)
  IN IF i > 0 THEN backFrom(w, i, toggle(asManager(w, i), r))
     ELSE IF interceptHandlerStops(w, r, "click", saving) THEN toggle(w, r)
     ELSE hostClick(w, r)

\* one iteration of saveToPlaylists / removeFromPlaylists up to its delay:
\* classList.add('ype-saving'); clickTarget.click(); classList.remove(...)
syntheticClick(w, r) ==
  LET w1 == [emit(w, "click", r) EXCEPT !.dom.saving = @ \cup {r}]
      w2 == rowClick(w1, r, r \in w1.dom.saving)
  IN [w2 EXCEPT !.dom.saving = @ \ {r}]

\* a mousedown or pointerdown event on row r: the handler that stops it does
\* not toggle (e.type is not 'click'); otherwise the event reaches the host
rowPress(w, r, type) ==
  IF firstStopping(w, r, type, r \in w.dom.saving) > 0 THEN w
  ELSE IF interceptHandlerStops(w, r, type, r \in w.dom.saving) THEN w
  ELSE emit(w, "hostPress", r)

\* clearSearchInput(): empties the search input of the document, if there is
\* one, and dispatches its input event
clearSearchInput(w) ==
  IF w.dom.wrappers > 0 THEN emit(w, "clearSearchInput", 0) ELSE w

\* closeSheet(sheet): asks the host to close the panel (backdrop click, or
\* Escape and then the close button)
closeSheet(w) == emit(w, "closeSheet", 0)

\* handleCancel(sheet)
handleCancel(w) == closeSheet(clearSearchInput(reset(w)))

(***************************************************************************)
(* handleSave: a batch is one invocation suspended in a delay              *)
(*   [own, queue, pos]: own = `this` is the manager the enhancer holds,    *)
(*   queue = itemsToAdd followed by itemsToRemove as captured at save      *)
(*   time, pos = number of rows already clicked                            *)
(***************************************************************************)
\* faulty variant of handleSave: no test of _isSaving
handleSaveUnguarded(w) ==
  LET itemsToAdd == getItemsToAdd(w)
      itemsToRemove == getItemsToRemove(w)
      queue == itemsToAdd \o itemsToRemove
  IN IF Len(itemsToAdd) = 0 /\ Len(itemsToRemove) = 0 THEN showToast(w, "noChanges")
     ELSE LET w1 == [w EXCEPT !.sel.isSaving = TRUE]
              w2 == syntheticClick(w1, queue[1])
          IN [w2 EXCEPT !.batches =
                Append(@, [own |-> TRUE, by |-> 0, queue |-> queue, pos |-> 1])]

\* faulty variant of handleSave: an empty diff closes the panel
handleSaveClosesOnNoChanges(w) ==
  IF w.sel.isSaving THEN w
  ELSE LET itemsToAdd == getItemsToAdd(w)
           itemsToRemove == getItemsToRemove(w)
           queue == itemsToAdd \o itemsToRemove
       IN IF Len(itemsToAdd) = 0 /\ Len(itemsToRemove) = 0
          THEN closeSheet(showToast(w, "noChanges"))
          ELSE LET w1 == [w EXCEPT !.sel.isSaving = TRUE]
                   w2 == syntheticClick(w1, queue[1])
               IN [w2 EXCEPT !.batches =
                     Append(@, [own |-> TRUE, by |-> 0, queue |-> queue, pos |-> 1])]

\* faulty variant of handleSave: removeFromPlaylists runs before saveToPlaylists
handleSaveRemovesFirst(w) ==
  IF w.sel.isSaving THEN w
  ELSE LET itemsToAdd == getItemsToAdd(w)
           itemsToRemove == getItemsToRemove(w)
           queue == itemsToRemove \o itemsToAdd
       IN IF Len(itemsToAdd) = 0 /\ Len(itemsToRemove) = 0
          THEN showToast(w, "noChanges")
          ELSE LET w1 == [w EXCEPT !.sel.isSaving = TRUE]
                   w2 == syntheticClick(w1, queue[1])
               IN [w2 EXCEPT !.batches =
                     Append(@, [own |-> TRUE, by |-> 0, queue |-> queue, pos |-> 1])]

\* handleSave() up to its first suspension: queue is the items of
\* saveToPlaylists followed by those of removeFromPlaylists, pos the number
\* of items clicked so far
handleSave(w) ==
  IF w.sel.isSaving THEN w
  ELSE LET itemsToAdd == getItemsToAdd(w)
           itemsToRemove == getItemsToRemove(w)
           queue == itemsToAdd \o itemsToRemove
       IN IF Len(itemsToAdd) = 0 /\ Len(itemsToRemove) = 0
          THEN showToast(w, "noChanges")
          ELSE LET w1 == [w EXCEPT !.sel.isSaving = TRUE]
                   w2 == syntheticClick(w1, queue[1])
               IN [w2 EXCEPT !.batches =
                     Append(@, [own |-> TRUE, by |-> 0, queue |-> queue, pos |-> 1])]

\* the success path of handleSave after the last delay, from the toast on:
\* the search input is emptied and the panel that carries ype-enhanced closed
afterSave(w) ==
  LET w1 == clearSearchInput(showToast(w, "updated"))
  IN IF w1.dom.enhanced THEN closeSheet(w1) ELSE w1

\* faulty variant of saveCompleted: only the items of the captured diff are updated
saveCompletedDiffOnly(w, i) ==
  IF w.batches[i].own
  THEN afterSave(
         [w EXCEPT !.sel.wasOriginallySelected =
                      {r \in Range(w.sel.items) :
                         IF r \in Range(w.batches[i].queue) THEN r \in w.sel.isSelected
                         ELSE r \in w.sel.wasOriginallySelected},
                   !.sel.isSaving = FALSE,
                   !.batches = RemoveAt(@, i)])
  ELSE afterSave([w EXCEPT !.batches = RemoveAt(@, i)])

\* faulty variant of saveCompleted: the flag is not released
saveCompletedKeepsFlag(w, i) ==
  IF w.batches[i].own
  THEN afterSave(
         [w EXCEPT !.sel.wasOriginallySelected = w.sel.isSelected,
                   !.batches = RemoveAt(@, i)])
  ELSE afterSave([w EXCEPT !.batches = RemoveAt(@, i)])

\* the tail of handleSave after the last delay: the originals follow the
\* current selection, toast, search input, panel, then the finally block.
\* `this` is the manager the enhancer holds (own), the unreferenced manager
\* `by`, or a destroyed manager, which has no items and whose flag is not
\* read again.
saveCompleted(w, i) ==
  LET by == w.batches[i].by IN
  IF w.batches[i].own
  THEN afterSave(
         [w EXCEPT !.sel.wasOriginallySelected = w.sel.isSelected,
                   !.sel.isSaving = FALSE,
                   !.batches = RemoveAt(@, i)])
  ELSE IF by > 0
  THEN afterSave(
         [w EXCEPT !.garbage.managers[by].wasOriginallySelected =
                      w.garbage.managers[by].isSelected,
                   !.garbage.managers[by].isSaving = FALSE,
                   !.batches = RemoveAt(@, i)])
  ELSE afterSave([w EXCEPT !.batches = RemoveAt(@, i)])

\* the statements of the try block of handleSave that can throw: in an
\* iteration of saveToPlaylists / removeFromPlaylists (loop) the lookup of
\* the click target and clickTarget.click(); after the loops (tail) the
\* success toast, clearSearchInput and closeSheet
SaveFaults ==
  [loop |-> {"target", "click"}, tail |-> {"toast", "clearSearchInput", "closeSheet"}]

\* the step of a handleSave of the manager w.sel that is due throws at the
\* statement; b is the invocation. When click() throws the row keeps the
\* ype-saving class (classList.remove is skipped); a throw after the loop
\* over the items comes after the success toast and the update of the
\* originals; closeSheet throws at closeBtn.click(), after it dispatched the
\* Escape keydown to the document. Then the catch block and the finally
\* block run.
failStep(w, b, at) ==
  LET r == b.queue[b.pos + 1]
      updated == [showToast(w, "updated") EXCEPT
                    !.sel.wasOriginallySelected = w.sel.isSelected]
      w1 == CASE at = "target" -> w
               [] at = "click" -> [w EXCEPT !.dom.saving = @ \cup {r}]
               [] at = "toast" -> w
               [] at = "clearSearchInput" -> updated
               [] at = "closeSheet" -> emit(clearSearchInput(updated), "escape", 0)
  IN [showToast(w1, "saveFailed") EXCEPT !.sel.isSaving = FALSE]

\* the step of the i-th suspended handleSave that is due throws at the
\* statement. `this` is the manager the enhancer holds (own), the
\* unreferenced manager `by`, or a destroyed manager, which has no items and
\* whose flag is not read again.
saveFailed(w, i, at) ==
  LET b == w.batches[i]
      w0 == [w EXCEPT !.batches = RemoveAt(@, i)]
  IN IF b.own THEN failStep(w0, b, at)
     ELSE IF b.by > 0 THEN backFrom(w0, b.by, failStep(asManager(w0, b.by), b, at))
     ELSE [failStep([w0 EXCEPT !.sel = [NewSelectionManager EXCEPT !.destroyed = TRUE]], b, at)
             EXCEPT !.sel = w0.sel]

\* handleSave() when its first iteration throws at the statement: nothing
\* is left suspended
handleSaveThrows(w, at) ==
  failStep(w, [queue |-> getItemsToAdd(w) \o getItemsToRemove(w), pos |-> 0], at)

\* handleSave resumed after one delay(200)
resumeSave(w, i) ==
  IF w.batches[i].pos < Len(w.batches[i].queue)
  THEN LET w1 == syntheticClick(w, w.batches[i].queue[w.batches[i].pos + 1])
       IN [w1 EXCEPT !.batches[i].pos = @ + 1]
  ELSE saveCompleted(w, i)

\* the manager whose injectActionFooter put the footer of the document
\* there and bound its two buttons: 0 = the manager the enhancer holds,
\* i = the i-th unreferenced manager, -1 = there is no such footer
footerOwner(w) ==
  IF w.sel.footer THEN 0
  ELSE LET owners == {i \in DOMAIN w.garbage.managers : w.garbage.managers[i].footer}
       IN IF owners = {} THEN -1 ELSE CHOOSE i \in owners : TRUE

\* the click listener of the cancel button: () => this.handleCancel(sheet)
cancelButton(w) ==
  LET i == footerOwner(w)
  IN IF i = 0 THEN handleCancel(w)
     ELSE IF i > 0 THEN backFrom(w, i, handleCancel(asManager(w, i)))
     ELSE w

\* the click listener of the save button: () => this.handleSave()
saveButton(w) ==
  LET i == footerOwner(w)
  IN IF i = 0 THEN handleSave(w)
     ELSE IF i > 0
     THEN LET w1 == backFrom(w, i, handleSave(asManager(w, i)))
              n == Len(w1.batches)
          IN IF n > Len(w.batches)
             THEN [w1 EXCEPT !.batches[n] = disown(@, i)]
             ELSE w1
     ELSE w

\* the click listener of the save button when the first iteration of the
\* handleSave it calls throws at the statement
saveButtonThrows(w, at) ==
  LET i == footerOwner(w)
  IN IF i = 0 THEN handleSaveThrows(w, at)
     ELSE IF i > 0 THEN backFrom(w, i, handleSaveThrows(asManager(w, i), at))
     ELSE w

\* the flag _isSaving of the manager that owns the footer
footerOwnerSaving(w) ==
  LET i == footerOwner(w)
  IN IF i = 0 THEN w.sel.isSaving
     ELSE IF i > 0 THEN w.garbage.managers[i].isSaving
     ELSE FALSE

(***************************************************************************)
(* Panel candidates of the classifier specification                        *)
(***************************************************************************)
PatternTitles == Range(PLAYLIST_TITLE_PATTERNS)

OtherTitleCores ==
  { <<>>,
    <<"s", "a", "v", "e">>,
    <<"s", "a", "v", "e", " ", "t", "o">>,
    <<"a", "d", "d", " ", "t", "o", " ", "p", "l", "a", "y", "l", "i", "s", "t">>,
    <<"s", "a", "v", "e", " ", "t", "o", " ", "p", "l", "a", "y", "l", "i", "s">>,
    <<"S", "a", "v", "e", " ", "t", "o", " ", "p", "l", "a", "y", "l", "i", "s", "t">>,
    <<"S", "A", "V", "E", " ", "V", "I", "D", "E", "O", " ", "T", "O">>,
    <<"U5132", "U5B58", "U81F3", "U64AD", "U653E", "U6E05", "U55AE">>,
    <<"U5132", "U5B58">>,
    <<"Z", "u", " ", "P", "l", "a", "y", "l", "i", "s", "t", " ", "h", "i", "n", "z", "u", "f", "U00DC", "g", "e", "n">>,
    <<"U0421", "U043E", "U0445", "U0440", "U0430", "U043D", "U0438", "U0442", "U044C", " ", "U0432", " ", "U043F", "U043B", "U0435", "U0439", "U043B", "U0438", "U0441", "U0442">>,
    <<"s", "h", "a", "r", "e">> }

TitlePrefixes == { <<>>, <<" ">>, <<"\n", " ">>, <<"x", " ">> }
TitleSuffixes == { <<>>, <<" ">>, <<".", ".", ".">>, <<" ", "x">> }

TitleTexts ==
  { pre \o core \o post : pre \in TitlePrefixes,
                          core \in PatternTitles \cup OtherTitleCores,
                          post \in TitleSuffixes }

\* a few texts for the candidates with a title in a fallback tier
FallbackTexts == { PLAYLIST_TITLE_PATTERNS[3], <<"s", "h", "a", "r", "e">> }

\* the elements matched by h2, [slot="title"], #title, .title
TitleTiers ==
  { << <<>>, <<>>, <<>>, <<>> >> }
  \cup { << <<t>>, <<>>, <<>>, <<>> >> : t \in TitleTexts }
  \cup { << <<>>, <<>>, <<t>>, <<>> >> : t \in FallbackTexts }
  \cup { << <<t1>>, <<>>, <<>>, <<t2>> >> : t1 \in FallbackTexts, t2 \in FallbackTexts }
  \cup { << <<t1, t2>>, <<>>, <<>>, <<>> >> : t1 \in FallbackTexts, t2 \in FallbackTexts }

Candidates ==
  [ titles : TitleTiers, ctxMenu : BOOLEAN, listView : BOOLEAN,
    listItemView : BOOLEAN, panelFooter : BOOLEAN, playlistIcon : BOOLEAN ]

\* the candidate the lifecycle specification keeps fixed
PlainCandidate ==
  [ titles |-> << <<PLAYLIST_TITLE_PATTERNS[1]>>, <<>>, <<>>, <<>> >>,
    ctxMenu |-> FALSE, listView |-> TRUE, listItemView |-> TRUE,
    panelFooter |-> TRUE, playlistIcon |-> FALSE ]


(***************************************************************************)
(* observer.ts: the dropdown observer. One dropdown is watched; it holds   *)
(* at most one sheet, whose content is the candidate cand. The state of    *)
(* the observer is the set of timers it has pending.                       *)
(***************************************************************************)
\* number of timers the opening handler has pending at a time
MaxTimers == 2

\* number of attribute records in one callback of the dropdown observer
\* that count as opening
MaxRecords == 2

TimerKinds == {"noSheet", "playlist", "uncertain", "visibility"}

\* no dropdown is in the document. present: the dropdown is in the document;
\* inBody: it is a descendant of document.body, the node childObserver and
\* bodyObserver observe; rescanning: the interval of the periodic rescan has
\* not been cleared; wiredBy: the caller of the observeDropdown that wired
\* the dropdown; held: the sheets the host took out of the dropdown while a
\* timer of the opening handler held them, each with its elements and the
\* timers that hold it
NoObserver ==
  [ opened |-> FALSE, hasSheet |-> FALSE, timers |-> [k \in TimerKinds |-> 0],
    present |-> FALSE, inBody |-> FALSE, rescanning |-> TRUE,
    observed |-> FALSE, wiredBy |-> "none", registrations |-> 0, checksScheduled |-> 0,
    held |-> <<>> ]

\* hasResidualUI(sheet)
hasResidualUI(w) ==
  \/ w.dom.enhanced
  \/ w.dom.wrappers > 0
  \/ \E r \in Rows : w.dom.checkbox[r] > 0

\* cleanupResidualUI(sheet): the elements are removed from the document, so
\* no manager holds a footer or a search box that is in the document
cleanupResidualUI(w) ==
  [w EXCEPT !.dom.wrappers = 0,
            !.srch.searchWrapper = FALSE,
            !.dom.checkbox = [r \in Rows |-> 0],
            !.dom.checked = {},
            !.dom.footers = 0,
            !.dom.footerCount = 0,
            !.sel.footer = FALSE,
            !.garbage.managers = [i \in DOMAIN @ |-> [@[i] EXCEPT !.footer = FALSE]],
            !.dom.enhanced = FALSE]

\* cleanupManagers(); cleanupResidualUI(sheet), under the test of hasResidualUI
teardownIfResidual(w) ==
  IF hasResidualUI(w) THEN cleanupResidualUI(cleanup(w)) ELSE w

\* callback(sheet): enhancePlaylistSheet of index.ts; the effect names the
\* sheet: 0 is the sheet in the dropdown, 1 a sheet that is detached
callback(w) == enhancePlaylistSheet(emit(w, "callback", 0))

\* processSheet(sheet, callback)
processSheet(w, sheet) ==
  IF ~isPlaylistSheet(sheet) THEN teardownIfResidual(w)
  ELSE callback(cleanupResidualUI(w))

\* the childObserver callback for an added node that is or holds the sheet:
\* processSheet runs once when the node is the sheet itself or no fallback
\* selector of SELECTORS.sheet matches in the node, and once more (again)
\* when the node holds the sheet and the sheet matches a fallback selector too
childObserver(w, sheet, again) ==
  LET w1 == processSheet(w, sheet)
  IN IF again THEN processSheet(w1, sheet) ELSE w1

\* checkExistingSheet(callback): findElement(document, SELECTORS.sheet)
checkExistingSheet(w, hasSheet, sheet) == IF hasSheet THEN processSheet(w, sheet) ELSE w

\* handleNavigation() of index.ts
handleNavigation(w, hasSheet, sheet) == checkExistingSheet(cleanup(w), hasSheet, sheet)

\* the isOpening branch of the dropdown observer: the timer it sets
dropdownOpeningTimer(hasSheet, sheet) ==
  IF ~hasSheet THEN "noSheet"
  ELSE LET checkResult == quickPreCheck(sheet)
       IN IF checkResult = "playlist" THEN "playlist"
          ELSE IF checkResult = "uncertain" THEN "uncertain"
          ELSE "none"

\* the isOpening branch of the dropdown observer: what it does at once
dropdownOpening(w, hasSheet, sheet) ==
  IF hasSheet /\ quickPreCheck(sheet) = "not-playlist" THEN teardownIfResidual(w) ELSE w

\* the callback of the dropdown observer on a batch with n records that
\* count as opening: the number of timers it sets. Without a sheet the first
\* record sets the fallback timer and returns from the callback, so the
\* records after it are dropped; with a sheet every record is handled.
dropdownObserverTimers(n, hasSheet, sheet) ==
  LET t == dropdownOpeningTimer(hasSheet, sheet)
  IN IF t = "none" THEN 0 ELSE IF t = "noSheet" THEN 1 ELSE n

\* the callback of the dropdown observer on a batch with n records that
\* count as opening: what it does at once, record after record
RECURSIVE dropdownObserver(_, _, _, _)
dropdownObserver(w, n, hasSheet, sheet) ==
  IF n = 0 \/ ~hasSheet THEN w
  ELSE dropdownObserver(dropdownOpening(w, hasSheet, sheet), n - 1, hasSheet, sheet)

\* faulty variant of dropdownClosing: the closing handler cleans up
dropdownClosingCleansUp(w) == teardownIfResidual(w)

\* the isClosing branch of the dropdown observer: it deletes the entry of
\* dropdownContentState, a map nothing ever writes, and does nothing else
dropdownClosing(w) == w

\* the timer set when the dropdown opened without a sheet
onNoSheetTimer(w, hasSheet, sheet) == IF hasSheet THEN processSheet(w, sheet) ELSE w

\* faulty variant of onPlaylistTimer: the callback runs without processSheet
onPlaylistTimerAttaches(w, sheet) == callback(cleanupResidualUI(w))

\* the timer set on the verdict 'playlist'
onPlaylistTimer(w, sheet) == processSheet(w, sheet)

\* the timer set on the verdict 'uncertain'
onUncertainTimer(w, sheet) ==
  LET recheck == quickPreCheck(sheet)
  IN IF recheck = "playlist" THEN processSheet(w, sheet)
     ELSE IF recheck = "not-playlist" /\ hasResidualUI(w) THEN cleanupResidualUI(cleanup(w))
     ELSE IF recheck = "uncertain" THEN processSheet(w, sheet)
     ELSE w

\* the timer a firing timer callback sets: no callback calls setTimeout
timerSetByTimer(kind, sheet) == "none"

\* checkDropdownVisibility of observeDropdown
checkDropdownVisibility(w, isVisible, hasSheet, sheet) ==
  IF ~isVisible \/ ~hasSheet THEN w
  ELSE LET checkResult == quickPreCheck(sheet)
       IN IF checkResult = "playlist" THEN processSheet(w, sheet)
          ELSE IF checkResult = "not-playlist" THEN teardownIfResidual(w)
          ELSE w

\* the host puts a new sheet element into the dropdown: what the extension
\* put into the old sheet goes with it, the footer in #contentWrapper stays,
\* and the managers no longer hold elements that are in the document
replaceSheet(w) ==
  [w EXCEPT !.dom.enhanced = FALSE,
            !.dom.wrappers = 0,
            !.srch.searchWrapper = FALSE,
            !.dom.checkbox = [r \in Rows |-> 0],
            !.dom.checked = {},
            !.dom.nRows = 0,
            !.dom.host = [r \in Rows |-> FALSE],
            !.dom.fallback = {},
            !.dom.saving = {}]

\* the elements of the sheet of w once the host has taken it out of the
\* dropdown: the footer stays behind in #contentWrapper
detached(d) == [d EXCEPT !.footers = 0, !.footerCount = 0, !.attached = FALSE]

\* code that works on a sheet d that is detached and whose content is
\* `sheet`; w.dom is the sheet in the dropdown. op is "processSheet" for
\* processSheet(sheet, callback) and "teardown" for the statements
\* `if (hasResidualUI(sheet)) { cleanupManagers(); cleanupResidualUI(sheet) }`.
\* cleanupManagers() and cleanup() act on the managers wherever their
\* elements are; hasResidualUI, cleanupResidualUI and the setup act on d, and
\* cleanupResidualUI also removes every .ype-footer of the document. The
\* result is the world and the detached sheet afterwards. A search box left
\* in d by a manager that was destroyed since is counted in d.wrappers until
\* cleanupResidualUI(d); d.enhanced is set whenever it is, so no test reads
\* the difference.
onDetached(w, d, sheet, op) ==
  LET on(x, e) == [x EXCEPT !.dom = [e EXCEPT !.footers = x.dom.footers,
                                              !.footerCount = x.dom.footerCount]]
      off(x, y) == [y EXCEPT !.dom = [x.dom EXCEPT !.footers = y.dom.footers,
                                                   !.footerCount = y.dom.footerCount]]
      cleared(x, e) ==
        LET y == cleanupResidualUI(on(x, e))
        IN [w |-> [off(x, y) EXCEPT !.srch.searchWrapper = x.srch.searchWrapper],
            d |-> detached(y.dom)]
      built(x, e) ==
        LET x1 == installGlobalClickInterceptor(emit(x, "callback", 1))
            x2 == cleanup(x1)
            y3 == removeCheckboxes(on(x2, [e EXCEPT !.enhanced = TRUE]))
            y4 == [setupMultiSelect(y3) EXCEPT !.enh.currentSelectionManager = TRUE]
            y5 == IF Len(y4.sel.items) > 0
                  THEN [setupSearch(y4) EXCEPT !.enh.currentSearchManager = TRUE]
                  ELSE y4
        IN [w |-> [off(x2, y5) EXCEPT !.srch.searchWrapper = FALSE],
            d |-> detached(y5.dom)]
  IN IF op = "teardown" \/ ~isPlaylistSheet(sheet)
     THEN IF hasResidualUI(on(w, d)) THEN cleared(cleanup(w), d) ELSE [w |-> w, d |-> d]
     ELSE LET c == cleared(w, d) IN built(c.w, c.d)

\* the timer of the opening handler that holds the detached sheet d fires:
\* the timer set on the verdict 'playlist' or the one set on 'uncertain'
onHeldTimer(w, d, kind, sheet) ==
  LET recheck == quickPreCheck(sheet)
  IN IF kind = "playlist" THEN onDetached(w, d, sheet, "processSheet")
     ELSE IF recheck = "playlist" THEN onDetached(w, d, sheet, "processSheet")
     ELSE IF recheck = "not-playlist" THEN onDetached(w, d, sheet, "teardown")
     ELSE onDetached(w, d, sheet, "processSheet")

\* faulty variant of observeDropdown: no test of observedDropdowns
observeDropdownUnguarded(o, by) ==
  [o EXCEPT !.observed = TRUE,
            !.wiredBy = IF o.observed THEN @ ELSE by,
            !.registrations = @ + 1,
            !.checksScheduled = @ + 2,
            !.timers["visibility"] = @ + 2]

\* observeDropdown(dropdown), called by `by`: o.observed is the membership of
\* the dropdown in observedDropdowns, o.registrations counts
\* dropdownObserver.observe on it, o.checksScheduled the
\* setTimeout(checkDropdownVisibility) calls for it
observeDropdown(o, by) ==
  IF o.observed THEN o
  ELSE [o EXCEPT !.observed = TRUE,
                 !.wiredBy = by,
                 !.registrations = @ + 1,
                 !.checksScheduled = @ + 2,
                 !.timers["visibility"] = @ + 2]

\* observeAllDropdowns(): the sweep at the start of observePlaylistSheet,
\* document.querySelectorAll over the whole document
observeAllDropdowns(o) == IF o.present THEN observeDropdown(o, "sweep") ELSE o

\* the callback of recheckInterval: document.querySelectorAll over the whole
\* document, and its own test of observedDropdowns
recheckInterval(o) ==
  IF o.present /\ ~o.observed THEN observeDropdown(o, "rescan") ELSE o

\* bodyObserver: a dropdown is among the nodes added under document.body
bodyObserver(o) == observeDropdown(o, "body")

\* the observer after init() on a page with one dropdown under document.body:
\* the sweep has wired it and its two visibility checks are pending
NewObserver(hasSheet) ==
  observeAllDropdowns([NoObserver EXCEPT !.present = TRUE, !.inBody = TRUE,
                                         !.hasSheet = hasSheet])

(***************************************************************************)
(* search.ts: the filter of a SearchManager. The state is the manager's    *)
(* query, the names of the tracked items in the order of the Map, the rows *)
(* hidden by the filter, the 'no results' element and the debounce timer.  *)
(***************************************************************************)
\* number of tracked items the filter runs over
MaxNames == 3

\* display names as extractPlaylistName returns them
NameWatchLater == <<"W", "a", "t", "c", "h", " ", "L", "a", "t", "e", "r">>
NameFavourites == <<"U6211", "U7684", "U6700", "U611B">>
NameRoadTrip == <<"R", "o", "a", "d", " ", "T", "r", "i", "p">>
NameLATER == <<"L", "A", "T", "E", "R">>
DisplayNames == {NameWatchLater, NameFavourites, NameRoadTrip, NameLATER}

\* values of the search input
Queries ==
  { <<>>, <<" ">>, <<"U611B">>, <<"W", "A", "T", "C", "H">>, <<"l", "a", "t", "e", "r">>,
    <<" ", "t", "r", "i", "p", " ">>, <<"z", "z">>, <<"q">> }

\* a SearchManager after initialize(sheet, items) on items with these names
NewSearchState(names) ==
  [ names |-> names, query |-> <<>>, hidden |-> {}, clearVisible |-> FALSE,
    noResultsMessage |-> FALSE, messageText |-> <<>>, messages |-> 0,
    timer |-> FALSE, pendingTimers |-> 0, destroyed |-> FALSE,
    domOps |-> <<>>, hostSaw |-> <<>> ]

\* a handler of the search box starts with no operation on the message done
beginStep(s) == [s EXCEPT !.domOps = <<>>, !.hostSaw = <<>>]

updateClearButtonVisibility(s) == [s EXCEPT !.clearVisible = Len(s.query) > 0]

\* faulty variant of updateNoResultsMessage: a new element for every
\* empty result
updateNoResultsMessageAppends(s, show) ==
  IF show
  THEN [s EXCEPT !.noResultsMessage = TRUE, !.messageText = s.query,
                 !.messages = @ + 1, !.domOps = Append(@, "createElement")]
  ELSE IF s.noResultsMessage
       THEN [s EXCEPT !.noResultsMessage = FALSE, !.messageText = <<>>,
                      !.messages = @ - 1, !.domOps = Append(@, "remove")]
       ELSE s

updateNoResultsMessage(s, show) ==
  IF show
  THEN IF ~s.noResultsMessage
       THEN [s EXCEPT !.noResultsMessage = TRUE, !.messageText = s.query,
                      !.messages = @ + 1, !.domOps = Append(@, "createElement")]
       ELSE [s EXCEPT !.messageText = s.query, !.domOps = Append(@, "setText")]
  ELSE IF s.noResultsMessage
       THEN [s EXCEPT !.noResultsMessage = FALSE, !.messageText = <<>>,
                      !.messages = @ - 1, !.domOps = Append(@, "remove")]
       ELSE s

\* faulty variant of filterPlaylists: the name is not lowercased
filterPlaylistsCaseSensitive(s) ==
  LET normalizedQuery == trim(toLowerCase(s.query))
      isMatch(i) == normalizedQuery = <<>> \/ includes(s.names[i], normalizedQuery)
      hidden == {i \in DOMAIN s.names : ~isMatch(i)}
      visibleCount == Len(s.names) - Cardinality(hidden)
  IN updateNoResultsMessage([s EXCEPT !.hidden = hidden],
                            visibleCount = 0 /\ normalizedQuery # <<>>)

filterPlaylists(s) ==
  LET normalizedQuery == trim(toLowerCase(s.query))
      isMatch(i) == normalizedQuery = <<>> \/ includes(toLowerCase(s.names[i]), normalizedQuery)
      hidden == {i \in DOMAIN s.names : ~isMatch(i)}
      visibleCount == Len(s.names) - Cardinality(hidden)
  IN updateNoResultsMessage([s EXCEPT !.hidden = hidden],
                            visibleCount = 0 /\ normalizedQuery # <<>>)

clearSearch(s) ==
  filterPlaylists(updateClearButtonVisibility([s EXCEPT !.query = <<>>]))

\* faulty variant of debounced: the pending timeout is not cleared
debouncedNoClear(s) ==
  [s EXCEPT !.timer = TRUE, !.pendingTimers = @ + 1]

\* debounced(): s.timer is timeoutId !== null, s.pendingTimers the number of
\* timeouts set and neither fired nor cleared
debounced(s) ==
  [s EXCEPT !.timer = TRUE,
            !.pendingTimers = (IF s.timer THEN @ - 1 ELSE @) + 1]

\* the input listener of the search box: the debounced filter is (re)armed
onSearchInput(s, value) ==
  debounced(updateClearButtonVisibility([s EXCEPT !.query = value]))

\* the timer of debounce fires
onDebounceTimeout(s) ==
  [filterPlaylists(s) EXCEPT !.timer = FALSE, !.pendingTimers = @ - 1]

\* the keydown listener of the search box, for the Escape key
onEscape(s) == IF s.query # <<>> THEN clearSearch(s) ELSE s

\* where a keydown listener of the host sits: "first" is a capture listener
\* on window registered before the extension's, "capture" any other capture
\* listener on the path to the input, "bubble" a listener of the bubble phase
HostListenerPhases == {"first", "capture", "bubble"}

\* keyboardInterceptor, the capture listener of window and document, when its
\* AbortController is live: with a value in the input it stops the event,
\* empties the input and dispatches 'input'; with an empty focused input it
\* stops the event and blurs
keyboardInterceptor(s) ==
  IF s.query # <<>> THEN onSearchInput(s, <<>>) ELSE s

\* the path of an Escape keydown whose target is the search input: the
\* capture listeners of the ancestors, then the listener of the input, which
\* calls stopPropagation and stopImmediatePropagation for every key, so the
\* bubble phase never starts
keydownEscape(s, interceptorsActive, hostPhase) ==
  LET saw == [s EXCEPT !.hostSaw = Append(@, "keydown")]
  IN IF interceptorsActive
     THEN keyboardInterceptor(IF hostPhase = "first" THEN saw ELSE s)
     ELSE onEscape(IF hostPhase \in {"first", "capture"} THEN saw ELSE s)

\* faulty variant of destroyFilter: the debounced filter is not cancelled
destroyFilterKeepsTimer(s) ==
  LET s1 == IF s.noResultsMessage
            THEN [s EXCEPT !.noResultsMessage = FALSE, !.messageText = <<>>,
                           !.messages = @ - 1, !.domOps = Append(@, "remove")]
            ELSE s
  IN [s1 EXCEPT !.destroyed = TRUE, !.clearVisible = FALSE]

\* SearchManager.destroy(), seen from the filter: the debounced filter is
\* cancelled, the search box and the message are removed and the Map is
\* cleared; the query stays, and so do the ype-hidden class and the inline
\* display:none of the rows the filter hid (s.hidden)
destroyFilter(s) ==
  LET s1 == IF s.timer
            THEN [s EXCEPT !.timer = FALSE, !.pendingTimers = @ - 1]
            ELSE s
      s2 == IF s1.noResultsMessage
            THEN [s1 EXCEPT !.noResultsMessage = FALSE, !.messageText = <<>>,
                            !.messages = @ - 1, !.domOps = Append(@, "remove")]
            ELSE s1
  IN [s2 EXCEPT !.destroyed = TRUE, !.clearVisible = FALSE]

\* a new SearchManager on the same rows after cleanupResidualUI, which takes
\* the ype-hidden class off the rows and leaves their inline display:none:
\* the query is empty, the debounce is new and initialize runs no filter
initializeFilterAgain(s) ==
  [NewSearchState(s.names) EXCEPT !.hidden = s.hidden,
                                  !.pendingTimers = s.pendingTimers]

\* the list observer of the SelectionManager puts a new row into the shared Map
onSearchItemAdded(s, name) == [s EXCEPT !.names = Append(@, name)]

(***************************************************************************)
(* Initial states                                                          *)
(***************************************************************************)
ClassInitFixed ==
  /\ cand = PlainCandidate
  /\ quick = "unset"
  /\ full = "unset"
  /\ callbackInvoked = FALSE

InitHist == [last |-> "init", attachLog |-> <<>>, fired |-> <<>>]

\* the page before the first attach: a panel with n rows already rendered,
\* each in or out of its playlist, and no trace of the extension
PageAtLoad(hasList, n, hostSel, fb) ==
  [ enh |-> [currentSelectionManager |-> FALSE, currentSearchManager |-> FALSE,
             globalInterceptorController |-> FALSE, activeInterceptors |-> 0],
    sel |-> NewSelectionManager,
    srch |-> NewSearchManager,
    garbage |-> [selection |-> 0, search |-> 0, managers |-> <<>>],
    dom |-> [listContainer |-> hasList, nRows |-> n,
             host |-> [r \in Rows |-> r \in hostSel], fallback |-> fb,
             checkbox |-> [r \in Rows |-> 0], checked |-> {},
             footers |-> 0, footerCount |-> 0,
             wrappers |-> 0, enhanced |-> FALSE, saving |-> {}, attached |-> TRUE],
    batches |-> <<>>,
    out |-> <<>> ]

\* the program state is w
WorldIs(w) ==
  /\ enh = w.enh
  /\ sel = w.sel
  /\ srch = w.srch
  /\ garbage = w.garbage
  /\ dom = w.dom
  /\ batches = w.batches
  /\ out = w.out

LifeInitRows(hasList, n, hostSel, fb) ==
  /\ WorldIs(PageAtLoad(hasList, n, hostSel, fb))
  /\ hist = InitHist

\* the same page with rows that are all yt-list-item-view-model elements
LifeInitWith(hasList, n, hostSel) == LifeInitRows(hasList, n, hostSel, {})

LifeInit ==
  \E hasList \in BOOLEAN :
    \E n \in (IF hasList THEN 0..MaxRows ELSE {0}) :
      \E hostSel \in SUBSET (1..n) :
        \E fb \in SUBSET (1..n) :
          LifeInitRows(hasList, n, hostSel, fb)

Init == ClassInitFixed /\ LifeInit /\ fs = NewSearchState(<<>>) /\ ob = NoObserver /\ rs = NoResolver

(***************************************************************************)
(* Actions of the lifecycle specification                                  *)
(***************************************************************************)
\* hist records the kind of the step just taken
Note(kind) == hist' = [last |-> kind, attachLog |-> <<>>, fired |-> <<>>]

\* the engines that were built and not destroyed
liveSelection(w) == (IF w.enh.currentSelectionManager THEN 1 ELSE 0) + w.garbage.selection
liveSearch(w) == (IF w.enh.currentSearchManager THEN 1 ELSE 0) + w.garbage.search

\* what exists in w, a state inside an attach whose constructors in `built`
\* have run: the parts of the attach under way and the parts of earlier ones
Snapshot(w, built) ==
  LET newI == IF "interceptors" \in built /\ w.enh.globalInterceptorController THEN 1 ELSE 0
      newS == IF "selection" \in built /\ w.enh.currentSelectionManager THEN 1 ELSE 0
      newK == IF "search" \in built /\ w.enh.currentSearchManager THEN 1 ELSE 0
  IN [ newParts |->
         (IF newI > 0 THEN {"interceptors"} ELSE {})
         \cup (IF newS > 0 THEN {"selection"} ELSE {})
         \cup (IF newK > 0 THEN {"search"} ELSE {}),
       priorParts |->
         (IF w.enh.activeInterceptors > newI THEN {"interceptors"} ELSE {})
         \cup (IF liveSelection(w) > newS THEN {"selection"} ELSE {})
         \cup (IF liveSearch(w) > newK THEN {"search"} ELSE {}) ]

\* the constructors that have run after each statement of enhanceSheet
BuiltAfter ==
  << {"interceptors"}, {"interceptors"}, {"interceptors"},
     {"interceptors", "selection"}, {"interceptors", "selection", "search"} >>

\* the attach callback runs on the panel
EnhanceSheet ==
  /\ LET steps == enhanceSheetSteps([World EXCEPT !.dom.enhanced = TRUE])
     IN /\ SetWorld(enhancePlaylistSheet(World))
        /\ hist' = [last |-> IF hist.last \in {"attach", "attachAgain"}
                             THEN "attachAgain" ELSE "attach",
                    attachLog |-> [i \in 1..Len(steps) |-> Snapshot(steps[i], BuiltAfter[i])],
                    fired |-> <<>>]
  /\ UNCHANGED <<classVars, searchVars, obsVars, resolverVars>>

\* what the panel holds when the navigation handler looks at it
NavigationSheets ==
  { PlainCandidate,
    [PlainCandidate EXCEPT !.ctxMenu = TRUE],
    [PlainCandidate EXCEPT !.titles = << <<>>, <<>>, <<>>, <<>> >>] }

\* the navigation observer calls handleNavigation: cleanup(), then
\* checkExistingSheet in the same task. hasSheet: a sheet is in the document
\* (the host can have removed the panel); sheet: what that sheet holds
Navigate(hasSheet, sheet) ==
  /\ SetWorld(handleNavigation(World, hasSheet, sheet))
  /\ Note("navigate")
  /\ UNCHANGED <<classVars, searchVars, obsVars, resolverVars>>

\* a navigation, with each sheet the document can hold or with none
Navigates ==
  \/ \E sheet \in NavigationSheets : Navigate(TRUE, sheet)
  \/ Navigate(FALSE, PlainCandidate)

\* the user clicks row r
UserClick(r) ==
  /\ r \in 1..dom.nRows
  /\ SetWorld(rowClick(World, r, r \in dom.saving))
  /\ Note("other")
  /\ UNCHANGED <<classVars, searchVars, obsVars, resolverVars>>

\* the user presses the mouse button on row r (mousedown, pointerdown)
UserPress(r, type) ==
  /\ r \in 1..dom.nRows
  /\ SetWorld(rowPress(World, r, type))
  /\ Note("other")
  /\ UNCHANGED <<classVars, searchVars, obsVars, resolverVars>>

\* the host renders one more row; the list observer runs
\* (fb: the row is a ytd-playlist-add-to-option-renderer)
HostAddRow(on, fb) ==
  /\ dom.listContainer
  /\ dom.nRows < MaxRows
  /\ LET r == dom.nRows + 1
     IN SetWorld(listObserversFrom(
                   [World EXCEPT !.dom.nRows = r, !.dom.host[r] = on,
                                 !.dom.fallback = IF fb THEN @ \cup {r} ELSE @], r, 1))
  /\ Note("other")
  /\ UNCHANGED <<classVars, searchVars, obsVars, resolverVars>>

\* refreshSheet()
RefreshSheet ==
  /\ enh.currentSelectionManager
  /\ SetWorld(refreshState(World))
  /\ Note("refresh")
  /\ UNCHANGED <<classVars, searchVars, obsVars, resolverVars>>

\* the cancel button of the footer in the document
HandleCancel ==
  /\ footerOwner(World) >= 0
  /\ SetWorld(cancelButton(World))
  /\ Note("other")
  /\ UNCHANGED <<classVars, searchVars, obsVars, resolverVars>>

\* the save button of the footer in the document. The press is rejected
\* while the manager of the footer is saving; otherwise it starts one more
\* invocation next to those still suspended, up to MaxBatches.
HandleSave ==
  /\ footerOwner(World) >= 0
  /\ footerOwnerSaving(World) \/ Len(batches) < MaxBatches
  /\ SetWorld(saveButton(World))
  /\ Note(IF sel.footer /\ sel.isSaving THEN "saveRejected" ELSE "other")
  /\ UNCHANGED <<classVars, searchVars, obsVars, resolverVars>>

\* the delay of the i-th suspended handleSave elapses
ResumeSave(i) ==
  /\ i \in DOMAIN batches
  /\ SetWorld(resumeSave(World, i))
  /\ Note(IF batches[i].own /\ batches[i].pos = Len(batches[i].queue)
          THEN "saveDone" ELSE "other")
  /\ UNCHANGED <<classVars, searchVars, obsVars, resolverVars>>

Next ==
  \/ EnhanceSheet
  \/ Navigates
  \/ \E r \in Rows : UserClick(r)
  \/ \E r \in Rows : \E type \in Range(PressTypes) : UserPress(r, type)
  \/ \E on, fb \in BOOLEAN : HostAddRow(on, fb)
  \/ RefreshSheet
  \/ HandleCancel
  \/ HandleSave
  \/ \E i \in DOMAIN batches : ResumeSave(i)

Spec == Init /\ [][Next]_vars

(***************************************************************************)
(* The specification with faults: a step of a batch can throw. A delay     *)
(* that was started elapses (the timer of delay(200) fires), so the        *)
(* suspended handleSave takes its next step, by weak fairness.             *)
(***************************************************************************)
\* the step of the i-th suspended handleSave that is due throws at the
\* statement
SaveThrows(i, at) ==
  /\ i \in DOMAIN batches
  /\ IF batches[i].pos < Len(batches[i].queue)
     THEN at \in SaveFaults.loop
     ELSE at \in SaveFaults.tail /\ (at = "closeSheet" => dom.enhanced)
  /\ SetWorld(saveFailed(World, i, at))
  /\ Note(IF batches[i].own THEN "saveFailed" ELSE "other")
  /\ UNCHANGED <<classVars, searchVars, obsVars, resolverVars>>

\* the save button of the footer in the document, when the first iteration
\* of the handleSave it starts throws at the statement
HandleSaveThrows(at) ==
  /\ footerOwner(World) >= 0
  /\ ~footerOwnerSaving(World)
  /\ LET m == IF footerOwner(World) > 0 THEN asManager(World, footerOwner(World))
              ELSE World
     IN getItemsToAdd(m) \o getItemsToRemove(m) # <<>>
  /\ SetWorld(saveButtonThrows(World, at))
  /\ Note("other")
  /\ UNCHANGED <<classVars, searchVars, obsVars, resolverVars>>

\* the i-th suspended handleSave goes on, one way or the other
SaveSettles ==
  \E i \in DOMAIN batches :
    ResumeSave(i) \/ \E at \in SaveFaults.loop \cup SaveFaults.tail : SaveThrows(i, at)

NextFaults ==
  \/ Next
  \/ \E i \in DOMAIN batches : \E at \in SaveFaults.loop \cup SaveFaults.tail : SaveThrows(i, at)
  \/ \E at \in SaveFaults.loop : HandleSaveThrows(at)

SpecFaults == Init /\ [][NextFaults]_vars /\ WF_vars(SaveSettles)

(***************************************************************************)
(* The specification with setups that throw: in an attach a statement of   *)
(* SelectionManager.initialize or of SearchManager.initialize can throw.   *)
(***************************************************************************)
\* number of managers that were built and never referenced
MaxAbandoned == 1

Abandoned == garbage.selection + garbage.search

\* the attach callback runs and setupMultiSelect throws at the fault
EnhanceSheetSelectionThrows(fault) ==
  /\ Abandoned < MaxAbandoned
  /\ dom.listContainer
  /\ fault.at \in {"items", "addCheckboxToItem"}
       => fault.done < Len(listItemsFound(World))
  /\ SetWorld(enhanceSheetSelectionThrows([World EXCEPT !.dom.enhanced = TRUE], fault))
  /\ Note("other")
  /\ UNCHANGED <<classVars, searchVars, obsVars, resolverVars>>

\* the attach callback runs and setupSearch throws at the statement
EnhanceSheetSearchThrows(at) ==
  /\ Abandoned < MaxAbandoned
  /\ dom.listContainer
  /\ dom.nRows > 0
  /\ at = "bindSearchEvents" => enhanceSheetSteps(World)[4].dom.wrappers = 0
  /\ SetWorld(enhanceSheetSearchThrows([World EXCEPT !.dom.enhanced = TRUE], at))
  /\ Note("other")
  /\ UNCHANGED <<classVars, searchVars, obsVars, resolverVars>>

SetupThrows ==
  \/ \E fault \in SetupFaults : EnhanceSheetSelectionThrows(fault)
  \/ \E at \in SearchFaults : EnhanceSheetSearchThrows(at)

\* attaches, navigations, clicks, presses, new rows and the buttons of the
\* footer in the document, which can be the footer of a manager that was
\* never referenced. A save is pressed here while no handleSave is
\* suspended; saves that overlap are steps of Spec and SpecFaults.
NextSetupFaults ==
  \/ EnhanceSheet
  \/ Navigates
  \/ \E r \in Rows : UserClick(r)
  \/ \E r \in Rows : \E type \in Range(PressTypes) : UserPress(r, type)
  \/ \E on, fb \in BOOLEAN : HostAddRow(on, fb)
  \/ HandleCancel
  \/ batches = <<>> /\ HandleSave
  \/ \E i \in DOMAIN batches : ResumeSave(i)
  \/ SetupThrows

SpecSetupFaults == Init /\ [][NextSetupFaults]_vars

(***************************************************************************)
(* The specification of live-added rows: the host puts a row into the list *)
(* container as a node of its own, or inside a node that it adds           *)
(***************************************************************************)
\* the host renders one more row, inside a wrapper element that it adds to
\* the list container; the list observer runs on the wrapper
HostAddWrappedRow(on, fb) ==
  /\ dom.listContainer
  /\ dom.nRows < MaxRows
  /\ LET r == dom.nRows + 1
     IN SetWorld(onWrapperAdded(
                   [World EXCEPT !.dom.nRows = r, !.dom.host[r] = on,
                                 !.dom.fallback = IF fb THEN @ \cup {r} ELSE @], r))
  /\ Note("other")
  /\ UNCHANGED <<classVars, searchVars, obsVars, resolverVars>>

NextLiveRows ==
  \/ EnhanceSheet
  \/ \E r \in Rows : UserClick(r)
  \/ \E on, fb \in BOOLEAN : HostAddRow(on, fb)
  \/ \E on, fb \in BOOLEAN : HostAddWrappedRow(on, fb)
  \/ HandleCancel
  \/ RefreshSheet

SpecLiveRows == Init /\ [][NextLiveRows]_vars

(***************************************************************************)
(* The search specification: one SearchManager of an attached session      *)
(***************************************************************************)
RECURSIVE SeqsUpTo(_, _)
SeqsUpTo(S, n) ==
  IF n = 0 THEN {<<>>}
  ELSE LET shorter == SeqsUpTo(S, n - 1)
       IN shorter \cup {Append(q, x) : q \in {t \in shorter : Len(t) = n - 1}, x \in S}

\* setupSearch runs only when the Selection engine tracks at least one item
SearchInit ==
  /\ ClassInitFixed
  /\ LifeInitWith(FALSE, 0, {})
  /\ \E names \in SeqsUpTo(DisplayNames, MaxNames) \ {<<>>} : fs = NewSearchState(names)
  /\ ob = NoObserver /\ rs = NoResolver

\* the user edits the search input (or clearSearchInput dispatches 'input')
SearchInput(value) ==
  /\ ~fs.destroyed
  /\ fs' = onSearchInput(beginStep(fs), value)
  /\ UNCHANGED <<classVars, lifeVars, obsVars, resolverVars>>

DebounceFires ==
  /\ fs.timer
  /\ fs' = onDebounceTimeout(beginStep(fs))
  /\ UNCHANGED <<classVars, lifeVars, obsVars, resolverVars>>

PressEscape ==
  /\ ~fs.destroyed
  /\ fs.query # <<>>
  /\ \E hostPhase \in HostListenerPhases :
       fs' = keydownEscape(beginStep(fs), enh.activeInterceptors > 0, hostPhase)
  /\ UNCHANGED <<classVars, lifeVars, obsVars, resolverVars>>

\* Escape in the search input while the query is empty
PressEscapeOnEmpty ==
  /\ ~fs.destroyed
  /\ fs.query = <<>>
  /\ \E hostPhase \in HostListenerPhases :
       fs' = keydownEscape(beginStep(fs), enh.activeInterceptors > 0, hostPhase)
  /\ UNCHANGED <<classVars, lifeVars, obsVars, resolverVars>>

SearchItemAdded(name) ==
  /\ ~fs.destroyed
  /\ Len(fs.names) < MaxNames
  /\ fs' = onSearchItemAdded(beginStep(fs), name)
  /\ UNCHANGED <<classVars, lifeVars, obsVars, resolverVars>>

\* cleanup() destroys the SearchManager
SearchDestroy ==
  /\ ~fs.destroyed
  /\ fs' = destroyFilter(beginStep(fs))
  /\ UNCHANGED <<classVars, lifeVars, obsVars, resolverVars>>

\* the next attach on the same panel builds a new SearchManager
SearchAttachAgain ==
  /\ fs.destroyed
  /\ fs' = initializeFilterAgain(fs)
  /\ UNCHANGED <<classVars, lifeVars, obsVars, resolverVars>>

SearchNext ==
  \/ \E value \in Queries : SearchInput(value)
  \/ DebounceFires
  \/ PressEscape
  \/ PressEscapeOnEmpty
  \/ \E name \in DisplayNames : SearchItemAdded(name)
  \/ SearchDestroy
  \/ SearchAttachAgain

SpecSearch == SearchInit /\ [][SearchNext]_vars

(***************************************************************************)
(* The resolver specification: findElement and findAllElements applied to  *)
(* one parent and one selector configuration. rs.tiers holds, for the      *)
(* primary selector and each fallback, the elements of the parent that     *)
(* match it, in document order.                                            *)
(***************************************************************************)
\* number of elements in the parent
MaxElements == 2
\* number of selectors in the configuration (primary and fallbacks)
MaxSelectors == 3

\* the matches of one selector: elements in document order
RECURSIVE Ascending(_)
Ascending(S) ==
  IF S = {} THEN <<>>
  ELSE LET m == CHOOSE x \in S : \A y \in S : x <= y
       IN <<m>> \o Ascending(S \ {m})

SelectorMatches == {Ascending(S) : S \in SUBSET (1..MaxElements)}

ResolverInit ==
  /\ ClassInitFixed
  /\ LifeInitWith(FALSE, 0, {})
  /\ fs = NewSearchState(<<>>)
  /\ ob = NoObserver
  /\ \E tiers \in SeqsUpTo(SelectorMatches, MaxSelectors) \ {<<>>} :
       rs = [tiers |-> tiers, one |-> NotCalled, all |-> NotCalled]

\* a call of findElement(parent, config)
CallFindElement ==
  /\ ~rs.one.done
  /\ LET r == findElement(rs.tiers)
     IN rs' = [rs EXCEPT !.one = [done |-> TRUE, found |-> r.found,
                                  elements |-> IF r.found THEN <<r.text>> ELSE <<>>]]
  /\ UNCHANGED <<classVars, lifeVars, searchVars, obsVars>>

\* a call of findAllElements(parent, config)
CallFindAllElements ==
  /\ ~rs.all.done
  /\ LET r == findAllElements(rs.tiers)
     IN rs' = [rs EXCEPT !.all = [done |-> TRUE, found |-> r # <<>>, elements |-> r]]
  /\ UNCHANGED <<classVars, lifeVars, searchVars, obsVars>>

ResolverNext == CallFindElement \/ CallFindAllElements

SpecResolver == ResolverInit /\ [][ResolverNext]_vars

(***************************************************************************)
(* The navigation specification: sessions with clicks and saves, and SPA   *)
(* navigations during which the panel stays in the document                *)
(***************************************************************************)
NavNext ==
  \/ EnhanceSheet
  \/ \E r \in Rows : UserClick(r)
  \/ \E on, fb \in BOOLEAN : HostAddRow(on, fb)
  \/ HandleSave
  \/ \E i \in DOMAIN batches : ResumeSave(i)
  \/ Navigates

SpecNavigation == Init /\ [][NavNext]_vars

(***************************************************************************)
(* The observer specification: one dropdown, its sheet and the sessions    *)
(* attached to it. The host changes the content of the sheet at any time.  *)
(***************************************************************************)
\* titles of a sheet: one of the patterns, another one, none
TitleChoices ==
  { << <<PLAYLIST_TITLE_PATTERNS[1]>>, <<>>, <<>>, <<>> >>,
    << <<<<"s", "h", "a", "r", "e">>>>, <<>>, <<>>, <<>> >>,
    << <<>>, <<>>, <<>>, <<>> >> }

\* contents of a sheet with a list container and n rows, one for each way
\* quickPreCheck and isPlaylistSheet read such a sheet: no title; a title
\* outside the patterns; a title of the patterns, alone, with the marker of
\* a context menu or, on a sheet without rows, with the footer of the panel
ObserverContents(n) ==
  { s \in { [ titles |-> t, ctxMenu |-> c, listView |-> TRUE, listItemView |-> n > 0,
              panelFooter |-> f, playlistIcon |-> FALSE ] :
              t \in TitleChoices, c \in BOOLEAN, f \in BOOLEAN } :
      /\ (s.ctxMenu \/ s.panelFooter) => s.titles = << <<PLAYLIST_TITLE_PATTERNS[1]>>, <<>>, <<>>, <<>> >>
      /\ s.panelFooter => n = 0 /\ ~s.ctxMenu }

\* init() of index.ts has run on a page with one dropdown, displayed or
\* not, with or without a sheet: observePlaylistSheet found the dropdown and
\* set its two visibility timers, and checkExistingSheet processed the sheet
ObsInit ==
  /\ quick = "unset"
  /\ full = "unset"
  /\ callbackInvoked = FALSE
  /\ fs = NewSearchState(<<>>)
  /\ \E n \in 0..MaxRows : \E hostSel \in {{}, 1..n} :
       \E c \in ObserverContents(n) : \E hasSheet, opened \in BOOLEAN :
         /\ cand = c
         /\ ob = [NewObserver(hasSheet) EXCEPT !.opened = opened]
         /\ WorldIs(checkExistingSheet(PageAtLoad(TRUE, n, hostSel, {}), hasSheet, c))
  /\ hist = InitHist
  /\ rs = NoResolver

ObsFrame == UNCHANGED <<quick, full, callbackInvoked, searchVars, resolverVars>>

\* bound on the number of detached sheets that timers hold at one time
MaxHeld == 1

\* the timers that hold the detached sheets h
RECURSIVE HeldTimers(_)
HeldTimers(h) ==
  IF h = <<>> THEN 0
  ELSE h[1].timers["playlist"] + h[1].timers["uncertain"] + HeldTimers(Tail(h))

\* timers set by the opening handler and not fired yet
PendingOpeningTimers ==
  ob.timers["noSheet"] + ob.timers["playlist"] + ob.timers["uncertain"] + HeldTimers(ob.held)

\* the host opens the dropdown: in one task it changes attributes so that n
\* records count as opening ('opened' set, aria-hidden removed or set to
\* "false"), and the dropdown is displayed or not when the task ends. The
\* dropdown observer gets the records in one callback once the dropdown is
\* wired.
DropdownOpens(n, displayed) ==
  /\ ob.present
  /\ Note("opening")
  /\ LET t == IF ob.observed THEN dropdownOpeningTimer(ob.hasSheet, cand) ELSE "none"
         set == IF ob.observed THEN dropdownObserverTimers(n, ob.hasSheet, cand) ELSE 0
     IN /\ PendingOpeningTimers + set <= MaxTimers
        /\ ob' = [ob EXCEPT !.opened = displayed,
                            !.timers = IF t = "none" THEN @ ELSE [@ EXCEPT ![t] = @ + set]]
  /\ SetWorld(IF ob.observed THEN dropdownObserver(World, n, ob.hasSheet, cand) ELSE World)
  /\ UNCHANGED cand
  /\ ObsFrame

\* an attribute mutation of the dropdown that counts as closing
DropdownCloses ==
  /\ ob.observed
  /\ ob.opened
  /\ ob' = [ob EXCEPT !.opened = FALSE]
  /\ SetWorld(dropdownClosing(World))
  /\ Note("closing")
  /\ UNCHANGED cand
  /\ ObsFrame

\* a pending timer of the kind fires
TimerFires(kind) ==
  /\ ob.timers[kind] > 0
  /\ Note(kind)
  /\ LET fired == [ob.timers EXCEPT ![kind] = @ - 1]
         t == timerSetByTimer(kind, cand)
     IN ob' = [ob EXCEPT !.timers = IF t = "none" THEN fired ELSE [fired EXCEPT ![t] = @ + 1]]
  /\ SetWorld(CASE kind = "noSheet" -> onNoSheetTimer(World, ob.hasSheet, cand)
                [] kind = "playlist" -> onPlaylistTimer(World, cand)
                [] kind = "uncertain" -> onUncertainTimer(World, cand)
                [] kind = "visibility" ->
                     checkDropdownVisibility(World, ob.opened, ob.hasSheet, cand))
  /\ UNCHANGED cand
  /\ ObsFrame

\* the host renders other content into the sheet
HostSwapsContent(c) ==
  /\ ob.hasSheet
  /\ c # cand
  /\ cand' = c
  /\ SetWorld(World)
  /\ Note("other")
  /\ UNCHANGED ob
  /\ ObsFrame

\* the host puts a new sheet with content c into the dropdown; the timers
\* set on the verdicts 'playlist' and 'uncertain' keep the sheet they were
\* set for, which is detached from then on; the child observer processes the
\* new sheet
HostReplacesSheet(c, again) ==
  /\ cand' = c
  /\ LET holding == [k \in {"playlist", "uncertain"} |-> ob.timers[k]]
     IN /\ holding["playlist"] + holding["uncertain"] > 0 => Len(ob.held) < MaxHeld
        /\ ob' = [ob EXCEPT
                    !.hasSheet = TRUE,
                    !.timers["playlist"] = 0,
                    !.timers["uncertain"] = 0,
                    !.held = IF holding["playlist"] + holding["uncertain"] > 0
                             THEN Append(@, [sheet |-> detached(dom), timers |-> holding])
                             ELSE @]
  /\ SetWorld(childObserver(replaceSheet(World), c, again))
  /\ Note("other")
  /\ ObsFrame

\* a timer that holds the i-th detached sheet fires; the sheet shows the
\* content c, whatever the host rendered into it last. A detached sheet no
\* timer holds any more is out of the program's reach.
HeldTimerFires(i, kind, c) ==
  /\ i \in DOMAIN ob.held
  /\ kind \in {"playlist", "uncertain"}
  /\ ob.held[i].timers[kind] > 0
  /\ hist' = [last |-> "held", attachLog |-> <<>>, fired |-> <<kind, c>>]
  /\ c \in ObserverContents(ob.held[i].sheet.nRows)
  /\ \E after \in {onHeldTimer(World, ob.held[i].sheet, kind, c)} :
       LET left == [ob.held[i].timers EXCEPT ![kind] = @ - 1]
       IN /\ ob' = [ob EXCEPT !.held =
                       IF left["playlist"] + left["uncertain"] = 0
                       THEN RemoveAt(@, i)
                       ELSE [@ EXCEPT ![i] = [sheet |-> after.d, timers |-> left]]]
          /\ SetWorld(after.w)
  /\ UNCHANGED cand
  /\ ObsFrame

ObsNext ==
  \/ \E n \in 1..MaxRecords : \E displayed \in BOOLEAN : DropdownOpens(n, displayed)
  \/ DropdownCloses
  \/ \E kind \in TimerKinds : TimerFires(kind)
  \/ \E c \in ObserverContents(dom.nRows) : HostSwapsContent(c)
  \/ \E c \in ObserverContents(0) : \E again \in BOOLEAN : HostReplacesSheet(c, again)
  \/ \E i \in DOMAIN ob.held : \E kind \in {"playlist", "uncertain"} :
       \E c \in ObserverContents(MaxRows) \cup ObserverContents(0) : HeldTimerFires(i, kind, c)

SpecObserver == ObsInit /\ [][ObsNext]_vars

(***************************************************************************)
(* The wiring specification: one dropdown whose sheet, once rendered, is a  *)
(* save-to-playlist panel. The dropdown is in the document when the         *)
(* observer starts, or the host adds it later; the user clicks rows.        *)
(***************************************************************************)
TargetContents(n) == {c \in ObserverContents(n) : isPlaylistSheet(c)}

\* init() of index.ts has run: a dropdown that was in the document, displayed
\* or not, has been found by observeAllDropdowns, and checkExistingSheet has
\* processed its sheet
WiringInit ==
  /\ quick = "unset"
  /\ full = "unset"
  /\ callbackInvoked = FALSE
  /\ fs = NewSearchState(<<>>)
  /\ \E n \in 1..MaxRows : \E hostSel \in {{}, 1..n} :
       \E c \in TargetContents(n) : \E present, displayed \in BOOLEAN :
         /\ cand = c
         /\ \E inBody \in {b \in BOOLEAN : b => present} :
              ob = observeAllDropdowns([NoObserver EXCEPT !.present = present,
                                                          !.inBody = inBody,
                                                          !.hasSheet = present,
                                                          !.opened = present /\ displayed])
         /\ WorldIs(checkExistingSheet(PageAtLoad(TRUE, n, hostSel, {}), present, c))
  /\ hist = InitHist
  /\ rs = NoResolver

\* the host adds the dropdown to the document, under document.body or
\* outside it, with or without its sheet, displayed or not. Under
\* document.body the child observer finds the sheet among the added nodes
\* and the body observer finds the dropdown; outside it no observer runs.
DropdownAdded(inBody, hasSheet, displayed, again) ==
  /\ ~ob.present
  /\ LET added == [ob EXCEPT !.present = TRUE, !.inBody = inBody,
                             !.hasSheet = hasSheet, !.opened = displayed]
     IN ob' = IF inBody THEN bodyObserver(added) ELSE added
  /\ SetWorld(IF inBody /\ hasSheet THEN childObserver(World, cand, again) ELSE World)
  /\ Note("dropdownAdded")
  /\ UNCHANGED cand
  /\ ObsFrame

\* the host renders the sheet into the dropdown; the child observer finds it
\* among the added nodes when the dropdown is under document.body
SheetAdded(again) ==
  /\ ob.present /\ ~ob.hasSheet
  /\ ob' = [ob EXCEPT !.hasSheet = TRUE]
  /\ SetWorld(IF ob.inBody THEN childObserver(World, cand, again) ELSE World)
  /\ Note("sheetAdded")
  /\ UNCHANGED cand
  /\ ObsFrame

\* the host takes the dropdown out of the document and puts it back at
\* another place; under document.body both observers of document.body see
\* it among the added nodes, the child observer first
DropdownMoved(toBody, again) ==
  /\ ob.present
  /\ ob' = IF toBody THEN bodyObserver([ob EXCEPT !.inBody = TRUE])
           ELSE [ob EXCEPT !.inBody = FALSE]
  /\ SetWorld(IF toBody /\ ob.hasSheet THEN childObserver(World, cand, again) ELSE World)
  /\ Note("dropdownMoved")
  /\ UNCHANGED cand
  /\ ObsFrame

\* the interval of the periodic rescan fires
Rescan ==
  /\ ob.rescanning
  /\ ob' = recheckInterval(ob)
  /\ SetWorld(World)
  /\ Note("rescan")
  /\ UNCHANGED cand
  /\ ObsFrame

\* the timer set for DROPDOWN_RECHECK_TIMEOUT_MS fires: clearInterval
RescanStops ==
  /\ ob.rescanning
  /\ ob' = [ob EXCEPT !.rescanning = FALSE]
  /\ SetWorld(World)
  /\ Note("rescanStops")
  /\ UNCHANGED cand
  /\ ObsFrame

WiringNext ==
  \/ \E inBody, hasSheet, displayed, again \in BOOLEAN :
       DropdownAdded(inBody, hasSheet, displayed, again)
  \/ \E again \in BOOLEAN : SheetAdded(again)
  \/ \E toBody, again \in BOOLEAN : DropdownMoved(toBody, again)
  \/ Rescan
  \/ RescanStops
  \/ \E n \in 1..MaxRecords : \E displayed \in BOOLEAN : DropdownOpens(n, displayed)
  \/ \E kind \in TimerKinds : TimerFires(kind)
  \/ \E r \in Rows : UserClick(r)
  \/ \E on \in BOOLEAN : HostAddRow(on, FALSE)

SpecWiring == WiringInit /\ [][WiringNext]_vars

(***************************************************************************)
(* The classifier specification: one candidate, classified                 *)
(***************************************************************************)
ClassInit ==
  /\ cand \in Candidates
  /\ quick = "unset"
  /\ full = "unset"
  /\ callbackInvoked = FALSE
  /\ LifeInitWith(FALSE, 0, {})
  /\ fs = NewSearchState(<<>>)
  /\ ob = NoObserver /\ rs = NoResolver

\* quickPreCheck(sheet) on the candidate
RunQuickPreCheck ==
  /\ quick = "unset"
  /\ quick' = quickPreCheck(cand)
  /\ UNCHANGED <<cand, full, callbackInvoked>>
  /\ UNCHANGED <<lifeVars, searchVars, obsVars, resolverVars>>

\* processSheet(sheet, callback): the callback runs iff isPlaylistSheet holds
RunProcessSheet ==
  /\ full = "unset"
  /\ full' = IF isPlaylistSheet(cand) THEN "match" ELSE "no-match"
  /\ callbackInvoked' = isPlaylistSheet(cand)
  /\ UNCHANGED <<cand, quick>>
  /\ UNCHANGED <<lifeVars, searchVars, obsVars, resolverVars>>

ClassNext == RunQuickPreCheck \/ RunProcessSheet

SpecClassify == ClassInit /\ [][ClassNext]_vars

(***************************************************************************)
(* Claims about the classifier (specification SpecClassify)                *)
(***************************************************************************)
TitleOf(c) == findElement(c.titles)

\* some phrase of the set occurs in t at some position
ContainsPhrase(t) ==
  \E p \in PatternTitles : \E i \in 1..Len(t) :
    i + Len(p) - 1 <= Len(t) /\ SubSeq(t, i, i + Len(p) - 1) = p

NeverMatch == quick # "playlist" /\ full # "match" /\ ~callbackInvoked

\* C1: a candidate that contains the context-menu marker is never classified
\* as match: quickPreCheck gives 'not-playlist' (never 'uncertain', also
\* without a title) and isPlaylistSheet gives false, whatever else it holds.
C1_ContextMenuNeverMatches ==
  cand.ctxMenu =>
    /\ quick \in {"unset", "not-playlist"}
    /\ full \in {"unset", "no-match"}
    /\ ~callbackInvoked

C1_Witness ==
  /\ cand.ctxMenu
  /\ ~TitleOf(cand).found
  /\ cand.listItemView
  /\ quick = "not-playlist"
  /\ full = "no-match"

\* C2 as stated: a title whose lowercased, trimmed text is not one of the
\* phrases of the set is never classified as match.
C2_NotAPhraseNeverMatches ==
  (TitleOf(cand).found /\ trim(toLowerCase(TitleOf(cand).text)) \notin PatternTitles)
    => NeverMatch

\* C2 amended: a title whose lowercased, trimmed text contains none of the
\* phrases of the set is never classified as match, and the attach callback
\* is not invoked for it.
C2_NoPhraseInsideNeverMatches ==
  (TitleOf(cand).found /\ ~ContainsPhrase(trim(toLowerCase(TitleOf(cand).text))))
    => NeverMatch

C2_Witness ==
  /\ TitleOf(cand).found
  /\ TitleOf(cand).text = <<"a", "d", "d", " ", "t", "o", " ", "p", "l", "a", "y", "l", "i", "s", "t">>
  /\ ~cand.ctxMenu /\ cand.listView /\ cand.listItemView /\ cand.panelFooter
  /\ quick = "not-playlist"
  /\ full = "no-match"

\* a candidate with a matching title and the list container, and with no
\* context-menu marker, footer marker, playlist-icon marker or list row
Uncorroborated ==
  /\ TitleOf(cand).found
  /\ titleMatchesPatterns(trim(toLowerCase(TitleOf(cand).text)))
  /\ cand.listView
  /\ ~cand.ctxMenu /\ ~cand.panelFooter /\ ~cand.playlistIcon /\ ~cand.listItemView

\* C36: a candidate with a matching title and the list-container marker but
\* with no footer marker, no playlist-icon marker and no list row is
\* classified as no-match by every verdict computed for it, and the attach
\* callback is not invoked for it.
C36_UncorroboratedIsNoMatch ==
  Uncorroborated =>
    /\ quick \in {"unset", "not-playlist"}
    /\ full \in {"unset", "no-match"}
    /\ ~callbackInvoked

\* C37: quickPreCheck gives 'uncertain' exactly when the context-menu marker
\* is absent and either no title element is found, or the title matches and
\* neither the list container nor a list row is present; every other
\* candidate gets 'playlist' or 'not-playlist', and a title that is found and
\* does not match always gets 'not-playlist'.
C37_IndeterminateExactly ==
  quick # "unset" =>
    LET t == TitleOf(cand)
        matches == titleMatchesPatterns(trim(toLowerCase(t.text)))
    IN /\ quick \in {"playlist", "not-playlist", "uncertain"}
       /\ quick = "uncertain" <=>
            /\ ~cand.ctxMenu
            /\ \/ ~t.found
               \/ matches /\ ~cand.listView /\ ~cand.listItemView
       /\ (t.found /\ ~matches) => quick = "not-playlist"

C37_Witness ==
  /\ ~cand.ctxMenu
  /\ TitleOf(cand).found
  /\ titleMatchesPatterns(trim(toLowerCase(TitleOf(cand).text)))
  /\ ~cand.listView /\ ~cand.listItemView
  /\ cand.panelFooter
  /\ quick = "uncertain"


(***************************************************************************)
(* Claims about the lifecycle and the selection engine (specification Spec)*)
(***************************************************************************)
Tracked == Range(sel.items)

\* C3: after two attaches in succession on the same panel there is one
\* Selection engine, at most one Search engine, at most one checkbox in every
\* row, at most one footer and at most one search box.
C3_AttachTwiceOneSession ==
  hist.last = "attachAgain" =>
    /\ liveSelection(World) = 1
    /\ liveSearch(World) <= 1
    /\ \A r \in Rows : dom.checkbox[r] <= 1
    /\ dom.footers <= 1
    /\ dom.wrappers <= 1

C3_Witness ==
  /\ hist.last = "attachAgain"
  /\ dom.nRows = MaxRows
  /\ \A r \in Rows : dom.checkbox[r] = 1
  /\ liveSelection(World) = 1 /\ sel.footer /\ dom.footers = 1
  /\ liveSearch(World) = 1 /\ srch.searchWrapper /\ dom.wrappers = 1

\* C4 as stated: while a session built by attach exists, exactly one set of
\* global interceptors is active, and never more than one.
C4_InterceptorsActiveInSession ==
  /\ enh.activeInterceptors <= 1
  /\ enh.currentSelectionManager => enh.activeInterceptors = 1

\* C5 as stated: at most one session is live in every state, and in every
\* step of an attach no part of the new session exists while a part of an
\* earlier session is still there.
C5_TeardownBeforeBuild ==
  /\ liveSelection(World) <= 1
  /\ liveSearch(World) <= 1
  /\ enh.activeInterceptors <= 1
  /\ \A i \in 1..Len(hist.attachLog) :
       hist.attachLog[i].newParts # {} => hist.attachLog[i].priorParts = {}

\* a click on row r flips that row's current selection when the manager's
\* handler takes it (toggle is called), and changes nothing else of the
\* selection state
ToggleFrame ==
  \A r \in Rows :
    UserClick(r) =>
      /\ sel'.wasOriginallySelected = sel.wasOriginallySelected
      /\ sel'.items = sel.items
      /\ \A q \in Rows \ {r} : (q \in sel'.isSelected) = (q \in sel.isSelected)
      /\ (r \in Tracked /\ sel.clickListeners /\ r \notin dom.fallback)
           => (r \in sel'.isSelected) # (r \in sel.isSelected)

\* the original state of an item tracked before and after the step changed
\* (an attach, also the one of a navigation, replaces the manager: the items
\* it tracks are new objects)
OriginalChanged ==
  /\ ~EnhanceSheet
  /\ ~Navigates
  /\ \E r \in Tracked :
       /\ r \in Range(sel'.items)
       /\ (r \in sel'.wasOriginallySelected) # (r \in sel.wasOriginallySelected)

\* the step is the completion of a batch-apply
SaveCompletes ==
  \E i \in DOMAIN batches :
    batches[i].pos = Len(batches[i].queue) /\ ResumeSave(i)

\* C6 as stated: toggle changes the current selection of its item only and no
\* original state, and only refresh changes the original state of a tracked item.
C6_OnlyRefreshChangesOriginal ==
  [][ToggleFrame /\ (OriginalChanged => RefreshSheet)]_vars

\* C6 amended: toggle changes the current selection of its item only and no
\* original state; the original state of a tracked item changes only in a
\* refresh or at the completion of a batch-apply.
C6_RefreshOrSaveChangesOriginal ==
  [][ToggleFrame /\ (OriginalChanged => (RefreshSheet \/ SaveCompletes))]_vars

\* a tracked row that is selected now and was not originally: it was toggled
C6_Witness ==
  /\ enh.currentSelectionManager
  /\ \E r \in Tracked :
       /\ r \in sel.isSelected
       /\ r \notin sel.wasOriginallySelected
       /\ dom.host[r] = FALSE
  /\ \E q \in Tracked : q \in sel.isSelected /\ q \in sel.wasOriginallySelected

\* C7: the add-list and the remove-list are disjoint, and a tracked item is
\* in one of them iff its current selection differs from its original one.
C7_DiffListsDisjoint ==
  LET add == Range(getItemsToAdd(World))
      rem == Range(getItemsToRemove(World))
  IN /\ add \cap rem = {}
     /\ \A r \in Tracked :
          (r \in add \cup rem) <=>
            ((r \in sel.isSelected) # (r \in sel.wasOriginallySelected))

C7_Witness ==
  /\ getItemsToAdd(World) # <<>>
  /\ getItemsToRemove(World) # <<>>

\* C8: when a batch-apply has completed, the original selection of every
\* tracked item of its manager equals the current one and both diff lists are
\* empty, whatever happened during its delays.
C8_DiffEmptyAfterSave ==
  hist.last = "saveDone" =>
    /\ \A r \in Tracked :
         (r \in sel.wasOriginallySelected) = (r \in sel.isSelected)
    /\ getItemsToAdd(World) = <<>>
    /\ getItemsToRemove(World) = <<>>

\* a save completed although a click during a delay left a tracked row whose
\* selection differs from what the host shows
C8_Witness ==
  /\ hist.last = "saveDone"
  /\ enh.currentSelectionManager
  /\ \E r \in Tracked : (r \in sel.isSelected) # dom.host[r]

\* C9 as stated: a user click while the manager is saving changes no item's
\* current selection.
C9_NoToggleWhileSaving ==
  [][\A r \in Rows :
       (sel.isSaving /\ UserClick(r)) => sel'.isSelected = sel.isSelected]_vars

\* C10: a manager has at most one batch-apply under way, and a save invoked
\* while its manager is saving changes nothing.
C10_OneSaveAtATime ==
  [][/\ Cardinality({i \in DOMAIN batches' : batches'[i].own}) <= 1
     /\ (sel.isSaving /\ HandleSave)
          => UNCHANGED <<enh, sel, srch, garbage, dom, batches>>]_vars

C10_Witness ==
  /\ hist.last = "saveRejected"
  /\ sel.isSaving
  /\ \E i \in DOMAIN batches :
       batches[i].own /\ batches[i].pos < Len(batches[i].queue)

(***************************************************************************)
(* Claims about batches that throw (specification SpecFaults)              *)
(***************************************************************************)
OwnBatches == {i \in DOMAIN batches : batches[i].own}

\* C11: the saving flag is set only while a handleSave of the manager is
\* suspended, and whenever it is set it is reset to false later, whether the
\* batch completes or throws.
C11_SavingFlagReleased ==
  /\ [](sel.isSaving => OwnBatches # {})
  /\ (sel.isSaving ~> ~sel.isSaving)

\* a batch threw after its first click: the flag is released and the diff is
\* still there
C11_Witness ==
  /\ hist.last = "saveFailed"
  /\ enh.currentSelectionManager
  /\ ~sel.isSaving
  /\ getItemsToAdd(World) # <<>>

(***************************************************************************)
(* Claims about toggle and save (specification Spec), continued            *)
(***************************************************************************)
\* the selection state, the diff and the checkboxes that show it (the count
\* in the footer is left out: a row added by the host later does not refresh it)
SelectionView(w) ==
  [ isSelected |-> w.sel.isSelected, wasOriginallySelected |-> w.sel.wasOriginallySelected,
    toAdd |-> getItemsToAdd(w), toRemove |-> getItemsToRemove(w),
    checked |-> w.dom.checked ]

DiffEmpty == getItemsToAdd(World) = <<>> /\ getItemsToRemove(World) = <<>>

\* C12: toggling a tracked item twice restores its current selection and the
\* diff; a save with an empty diff dispatches no click, does not set saving,
\* changes no state, does not close the panel and shows the 'no changes' toast.
C12_NetZeroSaveIsNoOp ==
  [][/\ \A r \in Tracked :
          /\ SelectionView(toggle(World, r)) # SelectionView(World)
          /\ SelectionView(toggle(toggle(World, r), r)) = SelectionView(World)
     /\ (HandleSave /\ ~sel.isSaving /\ DiffEmpty)
          => /\ UNCHANGED <<enh, sel, srch, garbage, dom, batches>>
             /\ out' = <<[kind |-> "noChanges", arg |-> 0]>>]_vars

\* the 'no changes' toast was shown for a manager that tracks a selected item
C12_Witness ==
  /\ out = <<[kind |-> "noChanges", arg |-> 0]>>
  /\ sel.footer /\ ~sel.isSaving
  /\ sel.isSelected # {}
  /\ batches = <<>>
(***************************************************************************)
(* Claims about teardown (specification Spec)                              *)
(***************************************************************************)
\* nothing for cleanup() to release
NoSession ==
  /\ ~enh.currentSelectionManager
  /\ ~enh.currentSearchManager
  /\ ~enh.globalInterceptorController

\* C15: cleanup() without an active session changes nothing; a second
\* cleanup() changes nothing after the first; after cleanup() there is no
\* engine, no set of interceptors, no footer and no search box.
C15_CleanupIdempotent ==
  LET once == cleanup(World)
      twice == cleanup(once)
  IN /\ NoSession => once = World
     /\ twice = once
     /\ ~once.enh.currentSelectionManager /\ liveSelection(once) = 0
     /\ ~once.enh.currentSearchManager /\ liveSearch(once) = 0
     /\ ~once.enh.globalInterceptorController /\ once.enh.activeInterceptors = 0
     /\ once.dom.footers = 0
     /\ once.dom.wrappers = 0

\* cleanup() ran on a session that had decorated a row, and nothing is left
\* for a second cleanup()
C15_Witness ==
  /\ NoSession
  /\ dom.enhanced
  /\ \E r \in 1..dom.nRows : dom.checkbox[r] = 1
  /\ dom.footers = 0 /\ dom.wrappers = 0

\* C16: once cleanup() has returned no global interceptor is active, and a
\* click on any row, also one the torn-down session tracked, is not
\* intercepted and not toggled: the host's handler gets it.
C16_NoListenerAfterCleanup ==
  [][/\ LET c == cleanup(World)
        IN /\ c.enh.activeInterceptors = 0
           /\ \A r \in 1..dom.nRows : rowClick(c, r, FALSE) = hostClick(c, r)
     /\ \A r \in Rows :
          (UserClick(r) /\ ~enh.currentSelectionManager)
            => /\ dom'.host[r] = ~dom.host[r]
               /\ dom'.checked = dom.checked
               /\ sel' = sel]_vars

\* the session that tracked and decorated every row is torn down
C16_Witness ==
  /\ ~enh.currentSelectionManager
  /\ enh.activeInterceptors = 0
  /\ hist.last = "navigate"
  /\ dom.nRows = MaxRows
  /\ \A r \in Rows : dom.checkbox[r] = 1

(***************************************************************************)
(* Claims about setups that throw (specification SpecSetupFaults)          *)
(***************************************************************************)
SearchSetupThrows == \E at \in SearchFaults : EnhanceSheetSearchThrows(at)
SelectionSetupThrows == \E fault \in SetupFaults : EnhanceSheetSelectionThrows(fault)

\* rows whose clicks a manager that was never referenced takes first
HeldByAbandoned(w) ==
  {r \in Rows : \E i \in DOMAIN w.garbage.managers :
                  w.garbage.managers[i].clickListeners
                  /\ r \in Range(w.garbage.managers[i].items)}

\* C17: a Search engine is active only while a Selection engine is, and an
\* attach builds one only over a Selection engine that tracks an item; when
\* the Search setup throws, the Selection engine built by that attach is
\* active, tracks its items, has its listeners, and toggles a clicked row
\* that its handler recognises and no unreferenced manager holds.
C17_SearchNeedsSelection ==
  /\ [](enh.currentSearchManager => enh.currentSelectionManager)
  /\ [][/\ (EnhanceSheet /\ enh'.currentSearchManager)
             => enh'.currentSelectionManager /\ sel'.items # <<>>
        /\ SearchSetupThrows
             => /\ enh'.currentSelectionManager /\ ~enh'.currentSearchManager
                /\ sel' = enhanceSheetSteps([World EXCEPT !.dom.enhanced = TRUE])[4].sel
                /\ sel'.items # <<>> /\ sel'.clickListeners /\ sel'.listObserver
                /\ ~sel'.destroyed
                /\ \A r \in (Range(sel'.items) \ HeldByAbandoned(World')) \ dom'.fallback :
                     /\ rowClick(World', r, FALSE) = toggle(World', r)
                     /\ toggle(World', r).sel.isSelected # sel'.isSelected]_vars

\* the Search setup threw after its box was put into the panel; the Selection
\* engine tracks every row
C17_Witness ==
  /\ garbage.search = 1
  /\ dom.wrappers = 1
  /\ enh.currentSelectionManager /\ ~enh.currentSearchManager
  /\ Len(sel.items) = MaxRows
  /\ sel.clickListeners
  /\ dom.fallback = {}

\* C18 as stated: when the Selection setup throws, at whatever statement of
\* initialize, the panel has no enhancement afterwards: no decoration, no
\* footer, no engine, and a click on any row is the host's.
C18_SetupThrowLeavesNothing ==
  [][SelectionSetupThrows
       => /\ \A r \in Rows : dom'.checkbox[r] = 0
          /\ dom'.footers = 0
          /\ liveSelection(World') = 0
          /\ HeldByAbandoned(World') = {}
          /\ \A r \in 1..dom'.nRows : rowClick(World', r, FALSE) = hostClick(World', r)]_vars

(***************************************************************************)
(* Claims about the search filter (specification SpecSearch)               *)
(***************************************************************************)
\* the item with this name matches query q: lowercase(trim(q)) is empty or a
\* substring of the lowercased name
Matches(name, q) ==
  LET n == toLowerCase(trim(q)) IN n = <<>> \/ includes(toLowerCase(name), n)

Visible(s) == DOMAIN s.names \ s.hidden

ScenarioNames == <<NameWatchLater, NameFavourites, NameRoadTrip>>

\* a step in which filterPlaylists ran
FilterRan == DebounceFires \/ PressEscape

\* C13: after the filter ran with query q, a tracked item is visible iff it
\* matches q; with the empty query every item is visible; with the names
\* Watch Later, U6211U7684U6700U611B, Road Trip and the query U611B only the second
\* item is visible.
C13_VisibleIffMatches ==
  [][FilterRan =>
       /\ Visible(fs') = {i \in DOMAIN fs'.names : Matches(fs'.names[i], fs'.query)}
       /\ (fs'.query = <<>> => Visible(fs') = DOMAIN fs'.names)
       /\ (fs'.names = ScenarioNames /\ fs'.query = <<"U611B">>
             => Visible(fs') = {2} /\ fs'.messages = 0)]_vars

\* the scenario: the filter ran with the query U611B over the three names
C13_Witness ==
  /\ fs.names = ScenarioNames
  /\ fs.query = <<"U611B">>
  /\ ~fs.timer
  /\ fs.hidden = {1, 3}

\* C14: there is never more than one 'no results' element; after the filter
\* ran the element is there iff the query is not empty and no item matches it,
\* and it shows that query; an empty result after an empty result changes the
\* text of the element and nothing else; clearing the search removes it.
C14_NoResultsAffordance ==
  /\ [](fs.messages <= 1)
  /\ [][FilterRan =>
          /\ fs'.messages = 1 <=>
               /\ fs'.query # <<>>
               /\ \A i \in DOMAIN fs'.names : ~Matches(fs'.names[i], fs'.query)
          /\ fs'.messages = 1 => fs'.messageText = fs'.query
          /\ (fs.messages = 1 /\ fs'.messages = 1) => fs'.domOps = <<"setText">>
          /\ PressEscape => fs'.messages = 0]_vars

\* a second empty result: the text of the one element was set again
C14_Witness ==
  /\ fs.messages = 1
  /\ fs.domOps = <<"setText">>
  /\ fs.messageText = <<"q">>
  /\ fs.hidden = DOMAIN fs.names
(***************************************************************************)
(* Claims about the observer (specification SpecObserver)                  *)
(***************************************************************************)
\* the attach callback ran in the step that led to this state
Called(o) == \E i \in DOMAIN o : o[i].kind = "callback"

\* the attach callback ran for the sheet in the dropdown (0) or for a
\* detached sheet (1)
CalledFor(o, which) == \E i \in DOMAIN o : o[i].kind = "callback" /\ o[i].arg = which

\* C19: the attach callback runs only in a step in which isPlaylistSheet
\* holds of the content, at that moment, of the sheet it is called for: the
\* sheet in the dropdown or, for a timer that kept a sheet the host has
\* replaced since, that detached sheet. A timer that fires on a sheet whose
\* content is not a target does not attach: the callback does not run and no
\* manager is built.
C19_AttachOnlyOnMatch ==
  [][/\ CalledFor(out', 0) => isPlaylistSheet(cand')
     /\ CalledFor(out', 1) =>
          /\ hist'.last = "held"
          /\ \E i \in DOMAIN ob.held :
               /\ HeldTimerFires(i, hist'.fired[1], hist'.fired[2])
               /\ isPlaylistSheet(hist'.fired[2])
     /\ \A kind \in TimerKinds :
          (TimerFires(kind) /\ ~isPlaylistSheet(cand))
            => /\ ~Called(out')
               /\ enh'.currentSelectionManager => sel' = sel /\ enh.currentSelectionManager
     /\ hist'.last = "held" =>
          \A i \in DOMAIN ob.held :
            (HeldTimerFires(i, hist'.fired[1], hist'.fired[2]) /\ ~isPlaylistSheet(hist'.fired[2]))
              => /\ ~Called(out')
                 /\ enh'.currentSelectionManager => sel' = sel /\ enh.currentSelectionManager]_vars

\* the timer set on the verdict 'playlist' kept its sheet when the host put
\* another one into the dropdown, and fired when the sheet it kept showed a
\* context menu: nothing was attached
C19_Witness ==
  /\ hist.last = "held"
  /\ hist.fired[1] = "playlist"
  /\ hist.fired[2].ctxMenu
  /\ ~isPlaylistSheet(hist.fired[2])
  /\ ~Called(out)
  /\ ~enh.currentSelectionManager

\* a marker of an earlier session is left in the dropdown
ResidualMarkers(w) ==
  \/ w.dom.enhanced
  \/ w.dom.wrappers > 0
  \/ \E r \in Rows : w.dom.checkbox[r] > 0
  \/ w.dom.footers > 0

\* C20 as stated: when the dropdown opens on a sheet whose verdict is
\* 'not-playlist' and a marker of an earlier session is left (enhanced flag,
\* search box, row checkbox or footer), the same step destroys the engines
\* and removes every marker, and does not attach.
C20_TeardownOnNoMatch ==
  [][((\E n \in 1..MaxRecords : \E displayed \in BOOLEAN : DropdownOpens(n, displayed))
        /\ ob.hasSheet /\ quickPreCheck(cand) = "not-playlist"
        /\ ResidualMarkers(World))
       => /\ ~enh'.currentSelectionManager /\ ~enh'.currentSearchManager
          /\ ~ResidualMarkers(World')
          /\ ~Called(out')]_vars
\* the number of timers pending
TotalTimers(o) ==
  o.timers["noSheet"] + o.timers["playlist"] + o.timers["uncertain"] + o.timers["visibility"]
    + HeldTimers(o.held)

\* C21 as stated: when the host opens the dropdown the observer sets at
\* most one timer: exactly one re-check when the sheet is missing and exactly
\* one when the verdict is 'uncertain'; a timer that fires sets no timer; a
\* second 'uncertain' at the re-check is decided by isPlaylistSheet in that
\* step; every firing ends in the callback, in the teardown or in no change.
\* The same holds of a timer that kept a sheet the host has replaced since.
C21_DeferredAtMostOnce ==
  [][/\ (\E n \in 1..MaxRecords : \E displayed \in BOOLEAN : DropdownOpens(n, displayed)) =>
          /\ TotalTimers(ob') <= TotalTimers(ob) + 1
          /\ ~ob.hasSheet => ob'.timers["noSheet"] = ob.timers["noSheet"] + 1
          /\ (ob.hasSheet /\ quickPreCheck(cand) = "uncertain")
               => ob'.timers["uncertain"] = ob.timers["uncertain"] + 1
     /\ \A kind \in TimerKinds :
          TimerFires(kind) =>
            /\ TotalTimers(ob') = TotalTimers(ob) - 1
            /\ (kind = "uncertain" /\ quickPreCheck(cand) = "uncertain")
                 => (Called(out') <=> isPlaylistSheet(cand))
            /\ \/ Called(out')
               \/ [World' EXCEPT !.out = <<>>] = cleanupResidualUI(cleanup(World))
               \/ [World' EXCEPT !.out = <<>>] = World
     /\ hist'.last = "held" =>
          \A i \in DOMAIN ob.held :
            LET kind == hist'.fired[1]
                c == hist'.fired[2]
            IN HeldTimerFires(i, kind, c) =>
                 /\ TotalTimers(ob') = TotalTimers(ob) - 1
                 /\ (kind = "uncertain" /\ quickPreCheck(c) = "uncertain")
                      => (Called(out') <=> isPlaylistSheet(c))
                 /\ \/ Called(out')
                    \/ [World' EXCEPT !.out = <<>>]
                         = onDetached(World, ob.held[i].sheet, c, "teardown").w
                    \/ [World' EXCEPT !.out = <<>>] = World]_vars

(***************************************************************************)
(* Claims about navigation (specification SpecNavigation)                  *)
(***************************************************************************)
\* rows whose host indicator shows membership
HostSelected(d) == {r \in 1..d.nRows : d.host[r]}

\* C22 as stated: after handleNavigation a session is active only if the
\* panel classified as a playlist sheet, that session was built after the
\* teardown (it is the only engine and holds what the page shows, no toggle),
\* and nothing of the session before the navigation is left, its suspended
\* save included.
C22_NavigationStartsAfresh ==
  [][\A hasSheet \in BOOLEAN : \A sheet \in NavigationSheets :
       Navigate(hasSheet, sheet) =>
         /\ enh'.currentSelectionManager => hasSheet /\ isPlaylistSheet(sheet)
         /\ (hasSheet /\ isPlaylistSheet(sheet))
              => enh'.currentSelectionManager /\ Called(out')
         /\ liveSelection(World') <= 1 /\ liveSearch(World') <= 1
         /\ sel'.isSelected = sel'.wasOriginallySelected
         /\ sel'.isSelected = (HostSelected(dom') \cap Range(sel'.items))
         /\ ~sel'.isSaving
         /\ batches' = <<>>]_vars
(***************************************************************************)
(* Claims about the selector resolver (specification SpecResolver)         *)
(***************************************************************************)
\* the earliest selector of the configuration that matches, 0 when none does
EarliestTier(tiers) ==
  IF \A i \in DOMAIN tiers : tiers[i] = <<>> THEN 0
  ELSE CHOOSE i \in DOMAIN tiers : tiers[i] # <<>> /\ \A j \in 1..(i - 1) : tiers[j] = <<>>

\* C23: findElement returns the first match of the earliest selector that
\* matches, or nothing when none matches; findAllElements returns the matches
\* of the earliest selector that matches and of no other, or nothing; neither
\* call changes what the selectors match.
C23_EarliestTierWins ==
  /\ [](LET k == EarliestTier(rs.tiers)
        IN /\ rs.one.done =>
                /\ rs.one.found <=> k # 0
                /\ k # 0 => rs.one.elements = <<rs.tiers[k][1]>>
           /\ rs.all.done =>
                rs.all.elements = IF k = 0 THEN <<>> ELSE rs.tiers[k])
  /\ [][rs'.tiers = rs.tiers /\ UNCHANGED <<classVars, lifeVars, searchVars, obsVars>>]_vars

\* the primary selector matches nothing, the two fallbacks match different
\* elements, and both functions answered from the first fallback
C23_Witness ==
  /\ rs.one.done /\ rs.all.done
  /\ Len(rs.tiers) = 3
  /\ rs.tiers[1] = <<>>
  /\ Len(rs.tiers[2]) = MaxElements
  /\ rs.tiers[3] # <<>>
  /\ rs.all.elements = rs.tiers[2]
  /\ rs.one.elements = <<rs.tiers[2][1]>>

\* the persistent state of the search box: everything but the record of the
\* operations of the current step
SearchView(s) ==
  [names |-> s.names, query |-> s.query, hidden |-> s.hidden,
   clearVisible |-> s.clearVisible, noResultsMessage |-> s.noResultsMessage,
   messageText |-> s.messageText, messages |-> s.messages, timer |-> s.timer,
   pendingTimers |-> s.pendingTimers]

\* C24: Escape in the search box with a query clears the query and in the
\* same step shows every item and removes the 'no results' message, and no
\* listener of the host receives the key event; Escape with an empty query
\* changes no state.
C24_EscapeClearsAndStaysInside ==
  [][/\ PressEscape => /\ fs'.query = <<>>
                       /\ fs'.hidden = {}
                       /\ ~fs'.noResultsMessage /\ fs'.messages = 0
                       /\ fs'.hostSaw = <<>>
     /\ PressEscapeOnEmpty => /\ SearchView(fs') = SearchView(fs)
                              /\ fs'.hostSaw = <<>>]_vars

\* a session is active on a panel that is open and classifies as a target
ActiveOnOpenTarget ==
  /\ enh.currentSelectionManager
  /\ ob.opened
  /\ isPlaylistSheet(cand)

\* C25: while a session is active on a panel that stays open and keeps
\* classifying as a target, a delayed visibility check, a periodic rescan or
\* a child-list mutation (a row added to the list, the dropdown put at
\* another place) does not run the attach callback, and the selection of
\* every row tracked before the step is what it was.
C25_SessionSurvivesChecks ==
  [][(/\ ActiveOnOpenTarget
      /\ \/ TimerFires("visibility")
         \/ Rescan
         \/ \E toBody, again \in BOOLEAN : DropdownMoved(toBody, again)
         \/ \E on \in BOOLEAN : HostAddRow(on, FALSE))
       => /\ ~Called(out')
          /\ enh'.currentSelectionManager
          /\ \A r \in Range(sel.items) : r \in sel'.isSelected <=> r \in sel.isSelected]_vars

\* a step in which the periodic rescan or the body observer meets the
\* dropdown: the rescan queries the whole document, the body observer sees
\* what is added under document.body
Encounters ==
  \/ Rescan /\ ob.present
  \/ \E hasSheet, displayed, again \in BOOLEAN : DropdownAdded(TRUE, hasSheet, displayed, again)
  \/ \E again \in BOOLEAN : DropdownMoved(TRUE, again)

\* C27: the dropdown is wired for observation exactly once, however often and
\* in whatever order the sweep at the start, the periodic rescan and the body
\* observer meet it: the attribute observer is never registered on it twice
\* and its two visibility checks are never scheduled twice; the sweep wires a
\* dropdown that is in the document at the start, every step in which the
\* rescan or the body observer meets the dropdown ends with it wired once,
\* whoever met it before, and no other step wires anything.
C27_WiredExactlyOnce ==
  /\ [](/\ ob.registrations <= 1
        /\ ob.observed <=> ob.registrations = 1
        /\ ob.checksScheduled = 2 * ob.registrations
        /\ ob.timers["visibility"] <= ob.checksScheduled
        /\ ~ob.present => ob.registrations = 0
        /\ (hist = InitHist /\ ob.present) => ob.registrations = 1)
  /\ [][/\ Encounters => ob'.registrations = 1 /\ ob'.checksScheduled = 2
        /\ ~Encounters => /\ ob'.registrations = ob.registrations
                          /\ ob'.checksScheduled = ob.checksScheduled]_vars

\* the dropdown was added outside document.body, where only the periodic
\* rescan found and wired it; the host has now moved it under document.body,
\* the body observer has met it, and it is still wired once
C27_Witness ==
  /\ hist.last = "dropdownMoved"
  /\ ob.wiredBy = "rescan"
  /\ ob.inBody
  /\ ob.registrations = 1
  /\ ob.checksScheduled = 2

\* C26: a closing transition of the dropdown leaves the session, the items
\* and their selection, the interceptors, the enhancement elements and the
\* pending timers as they are, tears nothing down and emits nothing.
C26_ClosingChangesNothing ==
  [][DropdownCloses => /\ UNCHANGED <<enh, sel, srch, garbage, dom, batches, cand>>
                       /\ out' = <<>>
                       /\ ob' = [ob EXCEPT !.opened = FALSE]]_vars

\* the dropdown has just closed on an active session, whose elements are
\* still in the sheet
C26_Witness ==
  /\ hist.last = "closing"
  /\ ~ob.opened
  /\ enh.currentSelectionManager
  /\ dom.enhanced
  /\ dom.footers > 0

\* the rows of the synthetic clicks among the effects o, in order
ClicksOf(o) ==
  LET clicks == SelectSeq(o, LAMBDA e : e.kind = "click")
  IN [k \in DOMAIN clicks |-> clicks[k].arg]

\* C28: a batch clicks the items of its add list, in order, and then the
\* items of its remove list; the two lists are the diff at the moment of
\* save, each item of the diff has one place in the batch, and a step
\* dispatches at most one synthetic click, the next item's, so two clicks of
\* a batch are always separated by one delay.
C28_AddsBeforeRemoves ==
  /\ [](\A i \in DOMAIN batches :
         LET b == batches[i]
         IN /\ b.pos \in 0..Len(b.queue)
            /\ \A j, k \in DOMAIN b.queue : b.queue[j] = b.queue[k] => j = k)
  /\ [][/\ Len(ClicksOf(out')) <= 1
        /\ (HandleSave /\ Len(batches') > Len(batches))
             => LET b == batches'[Len(batches')]
                IN /\ b.queue = getItemsToAdd(World) \o getItemsToRemove(World)
                   /\ b.pos = 1
                   /\ ClicksOf(out') = <<b.queue[1]>>
        /\ \A i \in DOMAIN batches :
             ResumeSave(i)
               => LET b == batches[i]
                  IN IF b.pos < Len(b.queue)
                     THEN /\ ClicksOf(out') = <<b.queue[b.pos + 1]>>
                          /\ batches' = [batches EXCEPT ![i].pos = b.pos + 1]
                     ELSE /\ ClicksOf(out') = <<>>
                          /\ Len(batches') = Len(batches) - 1]_vars

\* a batch of two has just clicked its second row, which the session
\* deselected and the host now shows out of the playlist, after its first
\* row, which the session selected and the host shows in the playlist
C28_Witness ==
  /\ Len(batches) = 1
  /\ batches[1].own
  /\ Len(batches[1].queue) = 2
  /\ batches[1].pos = 2
  /\ ClicksOf(out) = <<batches[1].queue[2]>>
  /\ batches[1].queue[1] \in sel.isSelected /\ dom.host[batches[1].queue[1]]
  /\ batches[1].queue[2] \notin sel.isSelected /\ ~dom.host[batches[1].queue[2]]

\* row r is tracked by the manager of the session and its click handlers are
\* on the list container
TrackedByHandler(r) ==
  /\ enh.currentSelectionManager
  /\ sel.clickListeners
  /\ r \in Range(sel.items)

\* C29 as stated: a synthetic click reaches the host and changes no item's current
\* selection; a user click on a tracked row does not reach the host and
\* flips the current selection of that row and of no other; a mousedown or
\* pointerdown on a tracked row does not reach the host and toggles nothing;
\* no row carries the ype-saving mark outside its own synthetic click.
C29_SyntheticPassesUserToggles ==
  /\ [](dom.saving = {})
  /\ [][/\ \A r \in Rows :
             ClicksOf(out') = <<r>>
               => /\ sel'.isSelected = sel.isSelected
                  /\ dom'.host = [dom.host EXCEPT ![r] = ~@]
        /\ \A r \in Rows :
             (UserClick(r) /\ TrackedByHandler(r))
               => /\ dom'.host = dom.host
                  /\ sel'.isSelected = (sel.isSelected \ {r}) \cup ({r} \ sel.isSelected)
        /\ \A r \in Rows : \A type \in Range(PressTypes) :
             (UserPress(r, type) /\ TrackedByHandler(r))
               => /\ UNCHANGED <<enh, sel, srch, garbage, dom, batches>>
                  /\ out' = <<>>]_vars

\* C30 as stated: a batch whose manager was destroyed by cleanup while the
\* batch waited in a delay dispatches no synthetic click when it resumes.
C30_NoClickAfterTeardown ==
  [][\A i \in DOMAIN batches :
       (~batches[i].own /\ ResumeSave(i)) => ClicksOf(out') = <<>>]_vars

(***************************************************************************)
(* Claims about a batch that throws, continued (specification SpecFaults)  *)
(***************************************************************************)
\* the kinds of the effects o, in order
KindsOf(o) == [k \in DOMAIN o |-> o[k].kind]

\* when an iteration of a batch of the session's manager throws after some
\* of its items were clicked, the step leaves the original and the current
\* selection of every item as they were, so the diff still lists the items
\* already applied; it emits one error toast and nothing else: the panel is
\* not closed and no click is dispatched to undo what was applied, so the
\* host keeps what it shows. The row whose click() threw keeps ype-saving.
IterationThrowKeepsDiff ==
  [][\A i \in DOMAIN batches : \A at \in SaveFaults.loop :
       (batches[i].own /\ batches[i].pos >= 1 /\ SaveThrows(i, at))
         => /\ sel'.wasOriginallySelected = sel.wasOriginallySelected
            /\ sel'.isSelected = sel.isSelected
            /\ sel'.items = sel.items
            /\ KindsOf(out') = <<"saveFailed">>
            /\ dom'.host = dom.host
            /\ [dom' EXCEPT !.saving = dom.saving] = dom]_vars

\* a batch threw after it had clicked a row to add and before it clicked
\* another: the host shows the first row in the playlist and the diff still
\* lists both
PartialBatchFailed ==
  /\ hist.last = "saveFailed"
  /\ enh.currentSelectionManager
  /\ \E k \in DOMAIN getItemsToAdd(World) : dom.host[getItemsToAdd(World)[k]]
  /\ \E k \in DOMAIN getItemsToAdd(World) : ~dom.host[getItemsToAdd(World)[k]]

\* C31 as stated: when a batch of the session's manager throws after some of
\* its items were clicked, whether in a later iteration or in a statement
\* after the last one, the step leaves the original selection of every item
\* as it was, so the diff still lists the items already applied; it emits
\* one error toast and nothing else (the panel is not closed and no click is
\* dispatched to undo what was applied), and the host keeps what it shows.
C31_FailedBatchKeepsDiff ==
  [][\A i \in DOMAIN batches : \A at \in SaveFaults.loop \cup SaveFaults.tail :
       (batches[i].own /\ batches[i].pos >= 1 /\ SaveThrows(i, at))
         => /\ sel'.wasOriginallySelected = sel.wasOriginallySelected
            /\ KindsOf(out') = <<"saveFailed">>
            /\ dom'.host = dom.host]_vars

(***************************************************************************)
(* Claims about the debounced filter (specification SpecSearch)            *)
(***************************************************************************)
\* C32: an input sets the query at once and changes neither the visibility
\* of an item nor the 'no results' message; it leaves exactly one filter
\* timer pending, however many inputs came before, so at most one timer is
\* pending at any time; when the timer fires the filter runs once, with the
\* query of the latest input, and no timer is left.
C32_DebouncedFilter ==
  /\ [](/\ fs.pendingTimers <= 1
        /\ fs.timer <=> fs.pendingTimers = 1)
  /\ [][/\ \A value \in Queries :
             SearchInput(value)
               => /\ fs'.query = value
                  /\ fs'.hidden = fs.hidden
                  /\ fs'.noResultsMessage = fs.noResultsMessage
                  /\ fs'.messages = fs.messages
                  /\ fs'.pendingTimers = 1
        /\ DebounceFires
             => /\ fs'.query = fs.query
                /\ Visible(fs') = {i \in DOMAIN fs.names : Matches(fs.names[i], fs.query)}
                /\ fs'.pendingTimers = 0]_vars

\* an input waits for its timer: the query is the new one, an item that does
\* not match it is still visible, and one timer is pending
C32_Witness ==
  /\ fs.timer
  /\ fs.pendingTimers = 1
  /\ fs.query # <<>>
  /\ \E i \in Visible(fs) : ~Matches(fs.names[i], fs.query)

\* C33: the teardown of the SearchManager leaves no filter timer pending,
\* and while the manager is destroyed no item changes its visibility and no
\* 'no results' message appears.
C33_NoFilterAfterDestroy ==
  /\ [](fs.destroyed => ~fs.timer /\ fs.pendingTimers = 0)
  /\ [][fs.destroyed => /\ fs'.hidden = fs.hidden
                        /\ fs'.messages = 0
                        /\ fs'.pendingTimers = 0]_vars

\* the manager was destroyed while an input waited for its timer: the query
\* is there, an item that does not match it is still visible, and no timer
\* is pending
C33_Witness ==
  /\ fs.destroyed
  /\ fs.query # <<>>
  /\ \E i \in Visible(fs) : ~Matches(fs.names[i], fs.query)
  /\ fs.pendingTimers = 0

\* C40 as stated: after the teardown of the SearchManager, and after the
\* attach that follows it, no row is hidden by the filter's override.
C40_NoRowLeftHidden ==
  [][(SearchDestroy \/ SearchAttachAgain) => fs'.hidden = {}]_vars

(***************************************************************************)
(* Claims about refresh, live-added rows and what the session shows        *)
(* (specification Spec)                                                    *)
(***************************************************************************)
\* C34: after refreshSheet() the current and the original selection of every
\* tracked item are what the host shows for its row at that moment, so both
\* diff lists are empty whatever the user had toggled; the tracked items are
\* the same, and the indicator of each row shows the refreshed value.
C34_RefreshReadsHost ==
  [][RefreshSheet
       => /\ sel'.items = sel.items
          /\ \A r \in Range(sel.items) :
               /\ r \in sel'.isSelected <=> dom.host[r]
               /\ r \in sel'.wasOriginallySelected <=> dom.host[r]
               /\ dom'.checkbox[r] = 1
               /\ r \in dom'.checked <=> dom.host[r]
          /\ getItemsToAdd(World') = <<>>
          /\ getItemsToRemove(World') = <<>>
          /\ dom'.host = dom.host]_vars

\* a refresh has just run in a session with a tracked row that the host
\* shows in the playlist and a tracked row that it shows out of it
C34_Witness ==
  /\ hist.last = "refresh"
  /\ \E r \in Range(sel.items) : dom.host[r] /\ r \in sel.isSelected
  /\ \E r \in Range(sel.items) : ~dom.host[r] /\ r \notin sel.isSelected

\* C38: while a session is active, the checkbox of every tracked row shows
\* checked exactly when the row is currently selected, after any sequence of
\* attach, toggle, cancel, refresh, rows added by the host and batch steps.
C38_IndicatorShowsSelection ==
  enh.currentSelectionManager =>
    \A r \in Tracked :
      /\ dom.checkbox[r] = 1
      /\ r \in dom.checked <=> r \in sel.isSelected

\* an active session in which one tracked row was selected by the user and
\* shows checked, and another was deselected by the user and shows unchecked
C38_Witness ==
  /\ enh.currentSelectionManager
  /\ \E r, q \in Tracked :
       /\ r \in sel.isSelected /\ r \notin sel.wasOriginallySelected
       /\ r \in dom.checked /\ dom.checkbox[r] = 1
       /\ q \notin sel.isSelected /\ q \in sel.wasOriginallySelected
       /\ q \notin dom.checked /\ dom.checkbox[q] = 1

\* C39: while a session with a footer is active, the count shown in the
\* footer is the number of tracked rows that are currently selected, also
\* after the host added rows.
C39_FooterCountsSelected ==
  (enh.currentSelectionManager /\ sel.footer) =>
    dom.footerCount = Cardinality({r \in Tracked : r \in sel.isSelected})

\* C35 as stated: a row that the host puts into the list container during a
\* session, as an added node or inside an added node, is tracked after the
\* step, once, with its current and its original selection equal to what the
\* host shows for it and with one indicator, and the items tracked before
\* keep their state.
C35_LiveRowTracked ==
  [][\A on, fb \in BOOLEAN :
       (/\ HostAddRow(on, fb) \/ HostAddWrappedRow(on, fb)
        /\ enh.currentSelectionManager /\ sel.listObserver)
         => LET r == dom.nRows + 1
            IN /\ sel'.items = Append(sel.items, r)
               /\ r \in sel'.isSelected <=> on
               /\ r \in sel'.wasOriginallySelected <=> on
               /\ dom'.checkbox[r] = 1
               /\ r \in dom'.checked <=> on
               /\ sel'.isSelected \ {r} = sel.isSelected
               /\ sel'.wasOriginallySelected \ {r} = sel.wasOriginallySelected]_vars
====
